---- MODULE Spec2Model ----
(***************************************************************************)
(* Model of the vm-dhcp-controller core: the VM reconciler                 *)
(* (Handler.OnChange), the network resolver (GetIPPoolFromNetworkName)     *)
(* and the admission validator (Validator.Create).                         *)
(*                                                                         *)
(* Names that the code splits on "/" (network names, namespaces) are       *)
(* sequences of one-character strings; every other identifier (interface   *)
(* names, MAC addresses, condition values) is an opaque string.            *)
(***************************************************************************)
EXTENDS Integers, Sequences, FiniteSets, TLC

VARIABLES vm, nadCache, ippoolCache, store, cache, queued, last, admission, util

vars == <<vm, nadCache, ippoolCache, store, cache, queued, last, admission, util>>

(***************************************************************************)
(* Bounds                                                                  *)
(***************************************************************************)
\* Highest resourceVersion the store hands out for the network-config resource.
MaxRV == 5

(***************************************************************************)
(* Identifiers                                                             *)
(***************************************************************************)
macAddressAnnotation == "harvesterhci.io/mac-address"

IPPoolNamespaceLabelKey == "network.harvesterhci.io/ippool-namespace"

IPPoolNameLabelKey == "network.harvesterhci.io/ippool-name"

ConditionTrue == "True"

ConditionFalse == "False"

ConditionUnset == ""

Slash == "/"

\* The namespace and name of the one VM the model follows.
VMNamespace == <<"d">>

VMName == <<"v">>

VMNetCfgKind == "VirtualMachineNetworkConfig"

(***************************************************************************)
(* Sequence helpers                                                        *)
(***************************************************************************)
Range(s) == { s[i] : i \in 1..Len(s) }

\* All orders in which the entries of a Go map can be visited: every
\* sequence that lists each key of the set exactly once.
Orders(S) == { q \in [1..Cardinality(S) -> S] : Range(q) = S }

\* Index of the first element equal to c, or 0.
RECURSIVE IndexFrom(_, _, _)
IndexFrom(s, c, i) ==
    IF i > Len(s) THEN 0
    ELSE IF s[i] = c THEN i
    ELSE IndexFrom(s, c, i + 1)

\* strings.TrimSpace: the text without its leading and trailing spaces.
RECURSIVE TrimSpace(_)
TrimSpace(s) ==
    IF s = <<>> THEN s
    ELSE IF Head(s) = " " THEN TrimSpace(Tail(s))
    ELSE IF s[Len(s)] = " " THEN TrimSpace(SubSeq(s, 1, Len(s) - 1))
    ELSE s

\* Mutant of RSplit: the text is split at its last separator.
RSplitLast(s, sep) ==
    LET idx == { i \in 1..Len(s) : s[i] = sep } IN
    IF idx = {} THEN <<(<<>>), TrimSpace(s)>>
    ELSE LET i == CHOOSE k \in idx : \A j \in idx : j <= k IN
         <<TrimSpace(SubSeq(s, 1, i - 1)), TrimSpace(SubSeq(s, i + 1, Len(s)))>>

(***************************************************************************)
(* kv.RSplit(s, "/"): strings.SplitN(s, sep, 2), each part trimmed of      *)
(* spaces; a string without the separator yields ("", s), otherwise the    *)
(* text before the first separator and the text after it.                  *)
(***************************************************************************)
RSplit(s, sep) ==
    LET i == IndexFrom(s, sep, 1) IN
    IF i = 0 THEN <<(<<>>), TrimSpace(s)>>
    ELSE <<TrimSpace(SubSeq(s, 1, i - 1)), TrimSpace(SubSeq(s, i + 1, Len(s)))>>

(***************************************************************************)
(* Network resolver                                                        *)
(*                                                                         *)
(* nadCache maps <<namespace, name>> to the label map of the interface     *)
(* definition stored there: [nil |-> TRUE, m |-> <<>>] for a nil map, else *)
(* [nil |-> FALSE, m |-> f] with f a function from label keys to           *)
(* <<namespace>> or <<name>> values.  ippoolCache maps <<namespace, name>> *)
(* to the pool stored there.                                               *)
(***************************************************************************)
NoErr == [kind |-> "none", ns |-> <<>>, name |-> <<>>, label |-> "", notFound |-> FALSE]

NoPool == [exists |-> FALSE, ns |-> <<>>, name |-> <<>>, cidr |-> ""]

ResolveErr(kind, ns, name, label, notFound) ==
    [pool |-> NoPool,
     err |-> [kind |-> kind, ns |-> ns, name |-> name, label |-> label,
              notFound |-> notFound]]

\* The namespace and name the interface definition is looked up under.
NadKey(networkName, fallbackNamespace) ==
    LET split == RSplit(networkName, Slash) IN
    <<IF split[1] = <<>> THEN fallbackNamespace ELSE split[1], split[2]>>

\* Mutant of GetIPPoolFromNetworkName: the pool is looked up with the two
\* label values in the wrong places.
GetIPPoolSwapped(nads, pools, networkName, fallbackNamespace) ==
    LET key == NadKey(networkName, fallbackNamespace)
        nadNamespace == key[1]
        nadName == key[2]
    IN
    IF key \notin DOMAIN nads
    THEN ResolveErr("nad not found", nadNamespace, nadName, "", TRUE)
    ELSE
    LET labels == nads[key] IN
    IF labels.nil
    THEN ResolveErr("no labels", nadNamespace, nadName, "", FALSE)
    ELSE IF IPPoolNamespaceLabelKey \notin DOMAIN labels.m
    THEN ResolveErr("no label", nadNamespace, nadName, IPPoolNamespaceLabelKey, FALSE)
    ELSE IF IPPoolNameLabelKey \notin DOMAIN labels.m
    THEN ResolveErr("no label", nadNamespace, nadName, IPPoolNameLabelKey, FALSE)
    ELSE
    LET ipPoolNamespace == labels.m[IPPoolNameLabelKey]
        ipPoolName == labels.m[IPPoolNamespaceLabelKey]
        pkey == <<ipPoolNamespace, ipPoolName>>
    IN
    IF pkey \notin DOMAIN pools
    THEN ResolveErr("ippool not found", ipPoolNamespace, ipPoolName, "", TRUE)
    ELSE [pool |-> pools[pkey], err |-> NoErr]

GetIPPoolFromNetworkName(nads, pools, networkName, fallbackNamespace) ==
    LET key == NadKey(networkName, fallbackNamespace)
        nadNamespace == key[1]
        nadName == key[2]
    IN
    IF key \notin DOMAIN nads
    THEN ResolveErr("nad not found", nadNamespace, nadName, "", TRUE)
    ELSE
    LET labels == nads[key] IN
    IF labels.nil
    THEN ResolveErr("no labels", nadNamespace, nadName, "", FALSE)
    ELSE IF IPPoolNamespaceLabelKey \notin DOMAIN labels.m
    THEN ResolveErr("no label", nadNamespace, nadName, IPPoolNamespaceLabelKey, FALSE)
    ELSE IF IPPoolNameLabelKey \notin DOMAIN labels.m
    THEN ResolveErr("no label", nadNamespace, nadName, IPPoolNameLabelKey, FALSE)
    ELSE
    LET ipPoolNamespace == labels.m[IPPoolNamespaceLabelKey]
        ipPoolName == labels.m[IPPoolNameLabelKey]
        pkey == <<ipPoolNamespace, ipPoolName>>
    IN
    IF pkey \notin DOMAIN pools
    THEN ResolveErr("ippool not found", ipPoolNamespace, ipPoolName, "", TRUE)
    ELSE [pool |-> pools[pkey], err |-> NoErr]

\* Mutant of hasIPPool: every network is taken to have a pool.
hasIPPoolAlways(nads, pools, v, networkName) == TRUE

\* Mutant of hasIPPool: only a not-found error counts as having no pool.
hasIPPoolUnlessNotFound(nads, pools, v, networkName) ==
    ~GetIPPoolFromNetworkName(nads, pools, networkName, v.namespace).err.notFound

\* hasIPPool: true exactly when the resolver returns no error.
hasIPPool(nads, pools, v, networkName) ==
    GetIPPoolFromNetworkName(nads, pools, networkName, v.namespace).err = NoErr

(***************************************************************************)
(* The VM object                                                           *)
(*                                                                         *)
(* [exists, deleting, namespace, name, annotations, interfaces, networks]: *)
(* exists = FALSE is the nil VM handed to OnChange, deleting is a set      *)
(* DeletionTimestamp; annotations maps annotation keys to raw strings;     *)
(* interfaces is the list of [name, mac]; networks the list of             *)
(* [name, multus, networkName] (multus = FALSE: network.Multus == nil).    *)
(***************************************************************************)
NilVM ==
    [exists |-> FALSE, deleting |-> FALSE, namespace |-> VMNamespace, name |-> VMName,
     annotations |-> <<>>, interfaces |-> <<>>, networks |-> <<>>]

\* json.Unmarshal of the annotation text into a map[string]string, for the
\* annotation texts the model uses: [ok, m] with m the decoded map.
JsonUnmarshal(raw) ==
    CASE raw = "{}" -> [ok |-> TRUE, m |-> <<>>]
      [] raw = "null" -> [ok |-> TRUE, m |-> <<>>]
      [] raw = "{\"nic1\":\"m9\"}" -> [ok |-> TRUE, m |-> ("nic1" :> "m9")]
      [] raw = "{\"nic1\":\"\"}" -> [ok |-> TRUE, m |-> ("nic1" :> "")]
      [] raw = "{\"nic2\":\"m8\"}" -> [ok |-> TRUE, m |-> ("nic2" :> "m8")]
      [] raw = "{\"nic1\":\"m9\",\"nic2\":\"m8\"}" ->
            [ok |-> TRUE, m |-> ("nic1" :> "m9") @@ ("nic2" :> "m8")]
      [] raw = "{\"nic3\":\"m7\"}" -> [ok |-> TRUE, m |-> ("nic3" :> "m7")]
      [] OTHER -> [ok |-> FALSE, m |-> <<>>]

\* Mutant of ApplyMACs: the annotation's MAC replaces the one already set.
ApplyMACsOverwrite(interfaces, macAddresses) ==
    [i \in 1..Len(interfaces) |->
        IF interfaces[i].name \in DOMAIN macAddresses
           /\ macAddresses[interfaces[i].name] # ""
        THEN [interfaces[i] EXCEPT !.mac = macAddresses[interfaces[i].name]]
        ELSE interfaces[i]]

\* The loop over the copy's interfaces: a MAC is set where it is empty and
\* the annotation has a non-empty one for the interface's name.
ApplyMACs(interfaces, macAddresses) ==
    [i \in 1..Len(interfaces) |->
        IF interfaces[i].mac # ""
        THEN interfaces[i]
        ELSE IF interfaces[i].name \in DOMAIN macAddresses
                /\ macAddresses[interfaces[i].name] # ""
        THEN [interfaces[i] EXCEPT !.mac = macAddresses[interfaces[i].name]]
        ELSE interfaces[i]]

\* applyMACAddressAnnotation: [vm, updated, err, arg]; the error it returns
\* is always nil; arg is the object the caller passed as the call leaves
\* it: the loop writes to the deep copy only.
applyMACAddressAnnotation(v) ==
    IF macAddressAnnotation \notin DOMAIN v.annotations
       \/ v.annotations[macAddressAnnotation] = ""
    THEN [vm |-> v, updated |-> FALSE, err |-> FALSE, arg |-> v]
    ELSE
    LET parsed == JsonUnmarshal(v.annotations[macAddressAnnotation]) IN
    IF ~parsed.ok
    THEN [vm |-> v, updated |-> FALSE, err |-> FALSE, arg |-> v]
    ELSE IF DOMAIN parsed.m = {}
    THEN [vm |-> v, updated |-> FALSE, err |-> FALSE, arg |-> v]
    ELSE
    LET applied == ApplyMACs(v.interfaces, parsed.m) IN
    [vm |-> [v EXCEPT !.interfaces = applied],
     err |-> FALSE,
     arg |-> v,
     updated |-> \E i \in 1..Len(v.interfaces) :
                    /\ v.interfaces[i].mac = ""
                    /\ v.interfaces[i].name \in DOMAIN parsed.m
                    /\ parsed.m[v.interfaces[i].name] # ""]

(***************************************************************************)
(* The desired mapping (ncm): interface name -> [NetworkName, MACAddress]  *)
(***************************************************************************)
\* First loop: one entry per interface with a non-empty MAC, keyed by name
\* (a later interface of the same name overwrites an earlier one).
RECURSIVE SeedInterfaces(_, _, _)
SeedInterfaces(interfaces, i, ncm) ==
    IF i > Len(interfaces) THEN ncm
    ELSE IF interfaces[i].mac = ""
    THEN SeedInterfaces(interfaces, i + 1, ncm)
    ELSE SeedInterfaces(interfaces, i + 1,
            (interfaces[i].name :>
                [NetworkName |-> <<>>, MACAddress |-> interfaces[i].mac]) @@ ncm)

\* Second loop: a Multus network gives its network name to the entry of
\* the same name.
RECURSIVE AttachNetworks(_, _, _)
AttachNetworks(networks, i, ncm) ==
    IF i > Len(networks) THEN ncm
    ELSE IF ~networks[i].multus
    THEN AttachNetworks(networks, i + 1, ncm)
    ELSE IF networks[i].name \notin DOMAIN ncm
    THEN AttachNetworks(networks, i + 1, ncm)
    ELSE AttachNetworks(networks, i + 1,
            [ncm EXCEPT ![networks[i].name].NetworkName = networks[i].networkName])

\* Third loop: entries without a network name are deleted.
RemoveIncomplete(ncm) ==
    [k \in { n \in DOMAIN ncm : ncm[n].NetworkName # <<>> } |-> ncm[k]]

\* Fourth loop: entries whose network has no pool are deleted.
FilterIPPool(nads, pools, v, ncm) ==
    [k \in { n \in DOMAIN ncm : hasIPPool(nads, pools, v, ncm[n].NetworkName) } |-> ncm[k]]

BuildNCM(nads, pools, v) ==
    FilterIPPool(nads, pools, v,
        RemoveIncomplete(
            AttachNetworks(v.networks, 1,
                SeedInterfaces(v.interfaces, 1, <<>>))))

(***************************************************************************)
(* The per-VM network-config resource                                      *)
(*                                                                         *)
(* [exists, namespace, name, spec, cond, reason, rv]: spec is the list of  *)
(* [NetworkName, MACAddress], cond the status of the in-sync condition     *)
(* ("" when unset), rv the resourceVersion.                                *)
(***************************************************************************)
Absent ==
    [exists |-> FALSE, namespace |-> <<>>, name |-> <<>>, spec |-> <<>>,
     cond |-> ConditionUnset, reason |-> "", rv |-> 0]

\* prepareVmNetCfg: the resource named after the VM whose spec lists the
\* entries of ncm in the order the map was visited; no status.
prepareVmNetCfg(v, ncm, order) ==
    [exists |-> TRUE, namespace |-> v.namespace, name |-> v.name,
     spec |-> [i \in 1..Len(order) |-> ncm[order[i]]],
     cond |-> ConditionUnset, reason |-> "", rv |-> 0]

(***************************************************************************)
(* The resource store for the network-config resource                      *)
(*                                                                         *)
(* Each write returns [ok, store].  A write is refused when the store      *)
(* fails (fail), when Create finds the resource already there, when        *)
(* Update or UpdateStatus finds it gone, or when the object written        *)
(* carries a resourceVersion other than the stored one (conflict).         *)
(* Update persists the spec and leaves the status alone; UpdateStatus      *)
(* persists the status and leaves the spec alone.                          *)
(***************************************************************************)
ClientCreate(st, obj, fail) ==
    IF fail \/ st.exists
    THEN [ok |-> FALSE, store |-> st]
    ELSE [ok |-> TRUE,
          store |-> [obj EXCEPT !.cond = ConditionUnset, !.reason = "", !.rv = 1]]

ClientUpdate(st, obj, fail) ==
    IF fail \/ ~st.exists \/ obj.rv # st.rv
    THEN [ok |-> FALSE, store |-> st]
    ELSE [ok |-> TRUE, store |-> [st EXCEPT !.spec = obj.spec, !.rv = st.rv + 1]]

ClientUpdateStatus(st, obj, fail) ==
    IF fail \/ ~st.exists \/ obj.rv # st.rv
    THEN [ok |-> FALSE, store |-> st]
    ELSE [ok |-> TRUE,
          store |-> [st EXCEPT !.cond = obj.cond, !.reason = obj.reason,
                               !.rv = st.rv + 1]]

(***************************************************************************)
(* Handler.OnChange, step 6: what to do with the resource read from cache  *)
(***************************************************************************)
\* Mutant of InSyncedIsFalse: an unset condition counts as out of sync.
InSyncedIsNotTrue(obj) == obj.cond # ConditionTrue

\* Mutant of InSyncedIsFalse: the test is for True.
InSyncedIsTrue(obj) == obj.cond = ConditionTrue

\* networkv1.InSynced.IsFalse(obj)
InSyncedIsFalse(obj) == obj.cond = ConditionFalse

\* Mutant of DeepEqual: the comparison is inverted.
DeepEqualInverted(a, b) == a # b

\* Mutant of DeepEqual: no two specs compare equal.
DeepEqualNever(a, b) == FALSE

\* reflect.DeepEqual on the two NetworkConfigs slices
DeepEqual(a, b) == a = b

\* Mutant of MarkOutOfSync: the condition is set to True.
MarkInSync(obj) ==
    [obj EXCEPT !.cond = ConditionTrue, !.reason = "NetworkConfigChanged"]

\* InSynced.SetStatus(False), .Reason("NetworkConfigChanged"), .Message(...)
MarkOutOfSync(obj) ==
    [obj EXCEPT !.cond = ConditionFalse, !.reason = "NetworkConfigChanged"]

\* Mutant of Reconcile: every branch that writes asks for Enqueue.
ReconcileAlwaysEnqueue(vmNetCfg, oldVmNetCfg, getErr) ==
    IF getErr
    THEN [branch |-> "geterr", call |-> "none", obj |-> Absent, enqueue |-> FALSE]
    ELSE IF ~oldVmNetCfg.exists
    THEN [branch |-> "create", call |-> "create", obj |-> vmNetCfg, enqueue |-> TRUE]
    ELSE
    LET vmNetCfgCpy == [oldVmNetCfg EXCEPT !.spec = vmNetCfg.spec] IN
    IF DeepEqual(vmNetCfgCpy.spec, oldVmNetCfg.spec)
    THEN [branch |-> "noop", call |-> "none", obj |-> Absent, enqueue |-> FALSE]
    ELSE IF InSyncedIsFalse(oldVmNetCfg)
    THEN [branch |-> "outofsync", call |-> "update", obj |-> vmNetCfgCpy,
          enqueue |-> TRUE]
    ELSE [branch |-> "synced", call |-> "updateStatus",
          obj |-> MarkOutOfSync(vmNetCfgCpy), enqueue |-> TRUE]

\* Mutant of Reconcile: the OutOfSync branch calls UpdateStatus.
ReconcileWrongWrite(vmNetCfg, oldVmNetCfg, getErr) ==
    IF getErr
    THEN [branch |-> "geterr", call |-> "none", obj |-> Absent, enqueue |-> FALSE]
    ELSE IF ~oldVmNetCfg.exists
    THEN [branch |-> "create", call |-> "create", obj |-> vmNetCfg, enqueue |-> FALSE]
    ELSE
    LET vmNetCfgCpy == [oldVmNetCfg EXCEPT !.spec = vmNetCfg.spec] IN
    IF DeepEqual(vmNetCfgCpy.spec, oldVmNetCfg.spec)
    THEN [branch |-> "noop", call |-> "none", obj |-> Absent, enqueue |-> FALSE]
    ELSE IF InSyncedIsFalse(oldVmNetCfg)
    THEN [branch |-> "outofsync", call |-> "updateStatus", obj |-> vmNetCfgCpy,
          enqueue |-> FALSE]
    ELSE [branch |-> "synced", call |-> "updateStatus",
          obj |-> MarkOutOfSync(vmNetCfgCpy), enqueue |-> TRUE]

\* Mutant of Reconcile: a Synced resource gets the new spec at once.
ReconcileSpecFirst(vmNetCfg, oldVmNetCfg, getErr) ==
    IF getErr
    THEN [branch |-> "geterr", call |-> "none", obj |-> Absent, enqueue |-> FALSE]
    ELSE IF ~oldVmNetCfg.exists
    THEN [branch |-> "create", call |-> "create", obj |-> vmNetCfg, enqueue |-> FALSE]
    ELSE
    LET vmNetCfgCpy == [oldVmNetCfg EXCEPT !.spec = vmNetCfg.spec] IN
    IF DeepEqual(vmNetCfgCpy.spec, oldVmNetCfg.spec)
    THEN [branch |-> "noop", call |-> "none", obj |-> Absent, enqueue |-> FALSE]
    ELSE [branch |-> "outofsync", call |-> "update", obj |-> vmNetCfgCpy,
          enqueue |-> FALSE]

\* The decision taken after prepareVmNetCfg: [branch, call, obj, enqueue]
\* where call is the one client write attempted with obj ("none" for no
\* write) and enqueue tells whether Enqueue follows a successful write.
Reconcile(vmNetCfg, oldVmNetCfg, getErr) ==
    IF getErr
    THEN [branch |-> "geterr", call |-> "none", obj |-> Absent, enqueue |-> FALSE]
    ELSE IF ~oldVmNetCfg.exists
    THEN [branch |-> "create", call |-> "create", obj |-> vmNetCfg, enqueue |-> FALSE]
    ELSE
    LET vmNetCfgCpy == [oldVmNetCfg EXCEPT !.spec = vmNetCfg.spec] IN
    IF DeepEqual(vmNetCfgCpy.spec, oldVmNetCfg.spec)
    THEN [branch |-> "noop", call |-> "none", obj |-> Absent, enqueue |-> FALSE]
    ELSE IF InSyncedIsFalse(oldVmNetCfg)
    THEN [branch |-> "outofsync", call |-> "update", obj |-> vmNetCfgCpy,
          enqueue |-> FALSE]
    ELSE [branch |-> "synced", call |-> "updateStatus",
          obj |-> MarkOutOfSync(vmNetCfgCpy), enqueue |-> TRUE]

\* The client write named by call.
ClientWrite(call, st, obj, fail) ==
    CASE call = "create" -> ClientCreate(st, obj, fail)
      [] call = "update" -> ClientUpdate(st, obj, fail)
      [] call = "updateStatus" -> ClientUpdateStatus(st, obj, fail)
      [] OTHER -> [ok |-> TRUE, store |-> st]

(***************************************************************************)
(* The record of the latest pass (history): what OnChange read and did.    *)
(* kind names the latest of OnChange, EngineSync and VMChange; preVM is    *)
(* the VM the pass was handed; old and                                     *)
(* preStore are the cached and the stored resource when the pass began,    *)
(* fresh tells whether they were equal; desired is the list the pass       *)
(* derived; vmWrite and ncCall are the writes it attempted, ncOk whether   *)
(* the network-config write was persisted, enqueued whether it called      *)
(* Enqueue, err whether it returned an error.  prevPass tells that the     *)
(* pass directly followed another pass (no engine step and no VM change    *)
(* in between) that returned no error and had read a fresh cache;          *)
(* prevCall is the write that earlier pass persisted and sameList tells    *)
(* that both passes derived the same list.  streak counts the successful   *)
(* OutOfSync overwrites since the condition was last written.              *)
(***************************************************************************)
NoPass(kind, streak) ==
    [kind |-> kind, branch |-> "none", old |-> Absent, preVM |-> NilVM,
     preStore |-> Absent, fresh |-> FALSE, updated |-> FALSE, vmWrite |-> "none",
     desired |-> <<>>, ncCall |-> "none", ncOk |-> FALSE, enqueued |-> FALSE,
     err |-> FALSE, prevPass |-> FALSE, prevCall |-> "none", sameList |-> FALSE,
     streak |-> streak]

\* Steps 1 and 2: the nil / deleted check, applyMACAddressAnnotation and the
\* VM update: [skip, vm, updated, vmWrite].
BackfillStep(v, failVM) ==
    IF ~v.exists \/ v.deleting
    THEN [skip |-> TRUE, vm |-> v, updated |-> FALSE, vmWrite |-> "none"]
    ELSE
    LET a == applyMACAddressAnnotation(v) IN
    IF ~a.updated
    THEN [skip |-> FALSE, vm |-> v, updated |-> FALSE, vmWrite |-> "none"]
    ELSE IF failVM
    THEN [skip |-> FALSE, vm |-> v, updated |-> TRUE, vmWrite |-> "fail"]
    ELSE [skip |-> FALSE, vm |-> a.vm, updated |-> TRUE, vmWrite |-> "ok"]

\* The desired mapping the pass goes on to build, empty when it returned before.
PassNCM(nads, pools, b) ==
    IF b.skip \/ b.vmWrite = "fail" \/ Len(b.vm.interfaces) = 0
    THEN <<>>
    ELSE BuildNCM(nads, pools, b.vm)

\* Mutant of EarlyBranch: an empty mapping is reconciled like any other.
EarlyBranchNoEmptyCheck(b, ncm) ==
    IF b.skip THEN "deleted"
    ELSE IF b.vmWrite = "fail" THEN "vmfail"
    ELSE IF Len(b.vm.interfaces) = 0 THEN "nointerfaces"
    ELSE "reconcile"

\* The branch a pass that writes no network-config takes.
EarlyBranch(b, ncm) ==
    IF b.skip THEN "deleted"
    ELSE IF b.vmWrite = "fail" THEN "vmfail"
    ELSE IF Len(b.vm.interfaces) = 0 THEN "nointerfaces"
    ELSE IF DOMAIN ncm = {} THEN "empty"
    ELSE "reconcile"

\* Mutant of Enqueued: Enqueue is called whatever UpdateStatus returned.
EnqueuedAnyway(enqueue, ok) == enqueue

\* Enqueue is reached only past the error return of the write before it.
Enqueued(enqueue, ok) == enqueue /\ ok

\* The workqueue after the pass: the key is back in it after Enqueue, after
\* the VM update (its change event) and after a returned error (retry).
Requeued(enqueued, vmWritten, err) == enqueued \/ vmWritten \/ err

\* What can go wrong in a pass: nothing, the VM update, the cache read of
\* the network-config resource (an error other than not-found), or the write
\* of the network-config resource.
Faults == {"none", "vmUpdate", "vmnetcfgGet", "vmnetcfgWrite"}

\* What one pass over VM v does, given the stored and the cached resource,
\* the fault it meets and the order in which the mapping is listed: the VM
\* and the store it leaves, the network-config write it attempted, whether
\* it enqueued the VM and whether it returned an error.
PassResult(v, st, ca, nads, pools, fault, order) ==
    LET b == BackfillStep(v, fault = "vmUpdate")
        ncm == PassNCM(nads, pools, b)
        early == EarlyBranch(b, ncm)
        d == IF early = "reconcile"
             THEN Reconcile(prepareVmNetCfg(b.vm, ncm, order), ca, fault = "vmnetcfgGet")
             ELSE [branch |-> early, call |-> "none", obj |-> Absent, enqueue |-> FALSE]
        w == ClientWrite(d.call, st, d.obj, fault = "vmnetcfgWrite")
    IN [vm |-> b.vm, store |-> w.store, call |-> d.call,
        enqueued |-> Enqueued(d.enqueue, w.ok),
        err |-> (b.vmWrite = "fail" \/ d.branch = "geterr" \/ ~w.ok)]

\* One pass of OnChange over the VM, meeting the fault named.
OnChangeWith(fault) ==
    /\ queued
    /\ store.rv < MaxRV
    /\ \E b \in {BackfillStep(vm, fault = "vmUpdate")} :
       \E ncm \in {PassNCM(nadCache, ippoolCache, b)} :
       \E order \in Orders(DOMAIN ncm) :
       \E vmNetCfg \in {prepareVmNetCfg(b.vm, ncm, order)} :
       \E early \in {EarlyBranch(b, ncm)} :
       \E d \in {IF early = "reconcile"
                 THEN Reconcile(vmNetCfg, cache, fault = "vmnetcfgGet")
                 ELSE [branch |-> early, call |-> "none", obj |-> Absent,
                       enqueue |-> FALSE]} :
       \E w \in {ClientWrite(d.call, store, d.obj, fault = "vmnetcfgWrite")} :
            LET enq == Enqueued(d.enqueue, w.ok)
                err == b.vmWrite = "fail" \/ d.branch = "geterr" \/ ~w.ok
                wrote == d.call # "none" /\ w.ok
                desired == IF early = "reconcile" THEN vmNetCfg.spec ELSE <<>>
                prevPass == last.kind = "OnChange" /\ ~last.err /\ last.fresh
            IN
            /\ vm' = b.vm
            /\ store' = w.store
            /\ queued' = Requeued(enq, b.vmWrite = "ok", err)
            /\ last' = [kind |-> "OnChange", branch |-> d.branch, old |-> cache,
                        preVM |-> vm,
                        preStore |-> store, fresh |-> (cache = store),
                        updated |-> b.updated, vmWrite |-> b.vmWrite,
                        desired |-> desired,
                        ncCall |-> d.call, ncOk |-> wrote, enqueued |-> enq,
                        err |-> err, prevPass |-> prevPass,
                        prevCall |-> IF prevPass /\ last.ncOk THEN last.ncCall
                                     ELSE "none",
                        sameList |-> prevPass /\ last.desired = desired,
                        streak |-> IF d.branch = "outofsync" /\ wrote
                                   THEN last.streak + 1
                                   ELSE IF wrote THEN 0 ELSE last.streak]
            /\ UNCHANGED <<nadCache, ippoolCache, cache, admission, util>>

OnChange == \E fault \in Faults : OnChangeWith(fault)

\* The informer cache catches up with the store.
CacheSync ==
    /\ cache # store
    /\ cache' = store
    /\ UNCHANGED <<vm, nadCache, ippoolCache, store, queued, last, admission, util>>

\* The allocation engine finishes reconciling addresses and reports the
\* resource in sync.
EngineSync ==
    /\ store.exists
    /\ store.cond # ConditionTrue
    /\ store.rv < MaxRV
    /\ store' = [store EXCEPT !.cond = ConditionTrue, !.reason = "", !.rv = store.rv + 1]
    /\ last' = NoPass("EngineSync", 0)
    /\ UNCHANGED <<vm, nadCache, ippoolCache, cache, queued, admission, util>>

\* A periodic resync puts the VM's key back in the workqueue.
Resync ==
    /\ ~queued
    /\ queued' = TRUE
    /\ UNCHANGED <<vm, nadCache, ippoolCache, store, cache, last, admission, util>>

(***************************************************************************)
(* The environment                                                         *)
(***************************************************************************)
Labels(ns, name) ==
    [nil |-> FALSE,
     m |-> (IPPoolNamespaceLabelKey :> ns) @@ (IPPoolNameLabelKey :> name)]

Pool(ns, name) == [exists |-> TRUE, ns |-> ns, name |-> name, cidr |-> "10.0.0.0/24"]

\* Interface definitions: d/a and n/b point at pools, d/c has a nil label
\* map, d/f points at a pool that does not exist, d/g and d/h each lack one
\* of the two labels; no other definition exists.
NADs ==
    (<< <<"d">>, <<"a">> >> :> Labels(<<"d">>, <<"p">>))
    @@ (<< <<"n">>, <<"b">> >> :> Labels(<<"n">>, <<"q">>))
    @@ (<< <<"d">>, <<"c">> >> :> [nil |-> TRUE, m |-> <<>>])
    @@ (<< <<"d">>, <<"f">> >> :> Labels(<<"d">>, <<"x">>))
    @@ (<< <<"d">>, <<"g">> >> :> [nil |-> FALSE, m |-> (IPPoolNamespaceLabelKey :> <<"d">>)])
    @@ (<< <<"d">>, <<"h">> >> :> [nil |-> FALSE, m |-> (IPPoolNameLabelKey :> <<"p">>)])

PoolsAll ==
    (<< <<"d">>, <<"p">> >> :> Pool(<<"d">>, <<"p">>))
    @@ (<< <<"n">>, <<"q">> >> :> Pool(<<"n">>, <<"q">>))

PoolsOne == (<< <<"d">>, <<"p">> >> :> Pool(<<"d">>, <<"p">>))

NetA == <<"a">>

NetNB == <<"n", "/", "b">>

NetC == <<"c">>

NetE == <<"e">>

NetF == <<"f">>

NetG == <<"g">>

NetH == <<"h">>

AnnNic1 == (macAddressAnnotation :> "{\"nic1\":\"m9\"}")

MkVM(deleting, annotations, interfaces, networks) ==
    [exists |-> TRUE, deleting |-> deleting, namespace |-> VMNamespace,
     name |-> VMName, annotations |-> annotations, interfaces |-> interfaces,
     networks |-> networks]

Nic(name, mac) == [name |-> name, mac |-> mac]

Multus(name, networkName) == [name |-> name, multus |-> TRUE, networkName |-> networkName]

PodNet(name) == [name |-> name, multus |-> FALSE, networkName |-> <<>>]

\* The VM specs the protocol specification moves between: the nil VM, a
\* VM being deleted, one without interfaces, one-interface VMs (resolving
\* network; MAC to backfill; no MAC at all; network without labels; another
\* resolving network) and
\* two-interface VMs (both networks resolve; only the first does; MAC to
\* backfill).
ProtoVMs ==
    { NilVM,
      MkVM(TRUE, <<>>, <<Nic("nic1", "m1")>>, <<Multus("nic1", NetA)>>),
      MkVM(FALSE, <<>>, <<>>, <<>>),
      MkVM(FALSE, <<>>, <<Nic("nic1", "m1")>>, <<Multus("nic1", NetA)>>),
      MkVM(FALSE, AnnNic1, <<Nic("nic1", "")>>, <<Multus("nic1", NetA)>>),
      MkVM(FALSE, <<>>, <<Nic("nic1", "")>>, <<Multus("nic1", NetA)>>),
      MkVM(FALSE, <<>>, <<Nic("nic1", "m1")>>, <<Multus("nic1", NetC)>>),
      MkVM(FALSE, <<>>, <<Nic("nic1", "m1")>>, <<Multus("nic1", NetNB)>>),
      MkVM(FALSE, <<>>, <<Nic("nic1", "m1"), Nic("nic2", "m2")>>,
           <<Multus("nic1", NetA), Multus("nic2", NetNB)>>),
      MkVM(FALSE, <<>>, <<Nic("nic1", "m1"), Nic("nic2", "m2")>>,
           <<Multus("nic1", NetA), Multus("nic2", NetE)>>),
      MkVM(FALSE, AnnNic1, <<Nic("nic1", ""), Nic("nic2", "m2")>>,
           <<Multus("nic1", NetA), Multus("nic2", NetNB)>>) }

\* The VM's spec, annotations or deletion state change.
VMChange ==
    /\ \E v \in ProtoVMs \ {vm} : vm' = v
    /\ queued' = TRUE
    /\ last' = NoPass("VMChange", last.streak)
    /\ UNCHANGED <<nadCache, ippoolCache, store, cache, admission, util>>

\* No call of the util package has been made.
NoCall == [op |-> "none", done |-> FALSE]

NoAdmission ==
    [asked |-> FALSE, obj |-> Absent, ok |-> FALSE, kind |-> "", namespace |-> <<>>,
     name |-> <<>>, cause |-> NoErr]

Init ==
    /\ vm \in ProtoVMs
    /\ nadCache = NADs
    /\ ippoolCache = PoolsAll
    /\ store = Absent
    /\ cache = Absent
    /\ queued = TRUE
    /\ last = NoPass("Init", 0)
    /\ admission = NoAdmission
    /\ util = NoCall

Next == OnChange \/ CacheSync \/ EngineSync \/ Resync \/ VMChange

Spec == Init /\ [][Next]_vars

(***************************************************************************)
(* The protocol without faults and without periodic resync (Register      *)
(* hooks OnChange to VM events only), under the scheduling of its          *)
(* surroundings: the informer cache catches up with the store, and the     *)
(* allocation engine gets to report a resource it has dealt with.  That    *)
(* the passes enqueued do run is a premise of the convergence property.    *)
(***************************************************************************)
\* A pass in which no client call fails for a reason of the store's own
\* (a write built on a stale read is still refused).
OnChangeNoFault == OnChangeWith("none")

NextLive == OnChangeNoFault \/ CacheSync \/ EngineSync \/ VMChange

SpecLive ==
    /\ Init
    /\ [][NextLive]_vars
    /\ WF_vars(CacheSync)
    /\ WF_vars(EngineSync)

(***************************************************************************)
(* Passes over a wide range of VMs                                         *)
(***************************************************************************)
AnnOf(raw) == (macAddressAnnotation :> raw)

WideAnnotations ==
    { <<>>, AnnOf(""), AnnOf("{"), AnnOf("{}"), AnnNic1,
      AnnOf("{\"nic1\":\"m9\",\"nic2\":\"m8\"}") }

\* What the VM declares for nic1: no network at all, a pod network, or a
\* Multus network with one of the names below.
WideNets1 ==
    { <<>>, <<PodNet("nic1")>> }
    \cup { <<Multus("nic1", n)>> : n \in {<<>>, NetA, NetNB, NetC, NetE, NetF, NetG, NetH} }

WideNets2 ==
    { <<PodNet("nic2")>> } \cup { <<Multus("nic2", n)>> : n \in {NetA, NetNB, NetF} }

WideVMs ==
    { MkVM(FALSE, ann, <<Nic("nic1", mac1)>>, net1) :
        ann \in WideAnnotations, mac1 \in {"", "m1"}, net1 \in WideNets1 }
    \cup { MkVM(FALSE, ann, <<Nic("nic1", mac1), Nic("nic2", mac2)>>, net1 \o net2) :
        ann \in WideAnnotations, mac1 \in {"", "m1"}, mac2 \in {"", "m2"},
        net1 \in WideNets1, net2 \in WideNets2 }

\* A resource as an earlier pass and the engine left it.
SyncedResource ==
    [exists |-> TRUE, namespace |-> VMNamespace, name |-> VMName,
     spec |-> <<[NetworkName |-> NetA, MACAddress |-> "m1"]>>,
     cond |-> ConditionTrue, reason |-> "", rv |-> 2]

InitWide ==
    /\ vm \in WideVMs
    /\ nadCache = NADs
    /\ ippoolCache \in {PoolsAll, PoolsOne}
    /\ store \in {Absent, SyncedResource}
    /\ cache = store
    /\ queued = TRUE
    /\ last = NoPass("Init", 0)
    /\ admission = NoAdmission
    /\ util = NoCall

NextWide == OnChange \/ CacheSync \/ Resync

SpecWide == InitWide /\ [][NextWide]_vars

(***************************************************************************)
(* Validator.Create                                                        *)
(***************************************************************************)
\* The loop over vmNetCfg.Spec.NetworkConfigs from entry i on: the error of
\* the first entry the resolver fails on, NoErr when there is none.
RECURSIVE ValidateFrom(_, _, _, _)
ValidateFrom(nads, pools, obj, i) ==
    IF i > Len(obj.spec) THEN NoErr
    ELSE
    LET r == GetIPPoolFromNetworkName(nads, pools, obj.spec[i].NetworkName,
                                      obj.namespace)
    IN IF r.err # NoErr THEN r.err ELSE ValidateFrom(nads, pools, obj, i + 1)

\* The verdict for cause, the error found: fmt.Errorf(webhook.CreateErr,
\* kind, namespace, name, err) when there is one.
Verdict(obj, cause) ==
    IF cause = NoErr
    THEN [asked |-> TRUE, obj |-> obj, ok |-> TRUE, kind |-> "", namespace |-> <<>>,
          name |-> <<>>, cause |-> NoErr]
    ELSE [asked |-> TRUE, obj |-> obj, ok |-> FALSE, kind |-> VMNetCfgKind,
          namespace |-> obj.namespace, name |-> obj.name, cause |-> cause]

\* Mutant of Create: only the first network reference is resolved.
CreateFirstOnly(nads, pools, obj) ==
    Verdict(obj,
        IF Len(obj.spec) = 0 THEN NoErr
        ELSE GetIPPoolFromNetworkName(nads, pools, obj.spec[1].NetworkName,
                                      obj.namespace).err)

Create(nads, pools, obj) == Verdict(obj, ValidateFrom(nads, pools, obj, 1))

NetB == <<"b">>

RequestNets == {NetA, NetB, NetNB, NetC, NetE, NetF, NetG, NetH}

RequestSpecs ==
    { <<>> }
    \cup { <<[NetworkName |-> n, MACAddress |-> "m1"]>> : n \in RequestNets }
    \cup { <<[NetworkName |-> n1, MACAddress |-> "m1"],
             [NetworkName |-> n2, MACAddress |-> "m2"]>> :
           n1 \in RequestNets, n2 \in RequestNets }

AdmissionRequests ==
    { [exists |-> TRUE, namespace |-> ns, name |-> VMName, spec |-> sp,
       cond |-> ConditionUnset, reason |-> "", rv |-> 0] :
      ns \in {<<"d">>, <<"n">>}, sp \in RequestSpecs }

ValidatorCreate ==
    /\ \E obj \in AdmissionRequests :
          admission' = Create(nadCache, ippoolCache, obj)
    /\ UNCHANGED <<vm, nadCache, ippoolCache, store, cache, queued, last, util>>

InitAdmission ==
    /\ vm = NilVM
    /\ nadCache = NADs
    /\ ippoolCache \in {PoolsAll, PoolsOne}
    /\ store = Absent
    /\ cache = Absent
    /\ queued = FALSE
    /\ last = NoPass("Init", 0)
    /\ admission = NoAdmission
    /\ util = NoCall

NextAdmission == ValidatorCreate

SpecAdmission == InitAdmission /\ [][NextAdmission]_vars

(***************************************************************************)
(* Addresses (net/netip, net)                                              *)
(*                                                                         *)
(* Address texts are sequences of one-character strings.  An Addr is       *)
(* [bits, b]: bits is 32 for IPv4, 128 for IPv6 and 0 for the zero Addr,   *)
(* b the bytes of the address, most significant first.                     *)
(***************************************************************************)
DigitVal ==
    ("0" :> 0) @@ ("1" :> 1) @@ ("2" :> 2) @@ ("3" :> 3) @@ ("4" :> 4)
    @@ ("5" :> 5) @@ ("6" :> 6) @@ ("7" :> 7) @@ ("8" :> 8) @@ ("9" :> 9)

\* netip.Addr{}: the zero Addr, which is no address.
ZeroAddr == [bits |-> 0, b |-> <<>>]

ParseFail == [ok |-> FALSE, addr |-> ZeroAddr]

\* parseIPv4Fields: the scan from position i on, with val and digLen the
\* value and the digits of the octet being read and fields the octets read.
RECURSIVE ParseIPv4From(_, _, _, _, _)
ParseIPv4From(s, i, val, digLen, fields) ==
    IF i > Len(s)
    THEN IF Len(fields) < 3
         THEN ParseFail
         ELSE [ok |-> TRUE, addr |-> [bits |-> 32, b |-> Append(fields, val)]]
    ELSE IF s[i] \in DOMAIN DigitVal
    THEN IF digLen = 1 /\ val = 0
         THEN ParseFail
         ELSE IF val * 10 + DigitVal[s[i]] > 255
         THEN ParseFail
         ELSE ParseIPv4From(s, i + 1, val * 10 + DigitVal[s[i]], digLen + 1, fields)
    ELSE IF s[i] = "."
    THEN IF i = 1 \/ i = Len(s) \/ s[i - 1] = "."
         THEN ParseFail
         ELSE IF Len(fields) = 3
         THEN ParseFail
         ELSE ParseIPv4From(s, i + 1, 0, 0, Append(fields, val))
    ELSE ParseFail

LoopbackV6 == <<":", ":", "1">>

\* parseIPv6, for the texts with a ":" that the model uses: "::1" is the
\* IPv6 loopback address; a MAC address is no IPv6 address.
ParseIPv6(s) ==
    IF s = LoopbackV6
    THEN [ok |-> TRUE,
          addr |-> [bits |-> 128, b |-> [k \in 1..16 |-> IF k = 16 THEN 1 ELSE 0]]]
    ELSE ParseFail

\* netip.ParseAddr: the first "." or ":" of the text decides whether it is
\* read as IPv4 or IPv6; a text with neither is no address.
RECURSIVE ParseAddrFrom(_, _)
ParseAddrFrom(s, i) ==
    IF i > Len(s) THEN ParseFail
    ELSE IF s[i] = "." THEN ParseIPv4From(s, 1, 0, 0, <<>>)
    ELSE IF s[i] = ":" THEN ParseIPv6(s)
    ELSE IF s[i] = "%" THEN ParseFail
    ELSE ParseAddrFrom(s, i + 1)

ParseAddr(s) == ParseAddrFrom(s, 1)

\* Addr.Compare: -1, 0 or 1; addresses of fewer bits sort first, addresses
\* of the same length by their bytes.
RECURSIVE CompareBytes(_, _, _)
CompareBytes(x, y, i) ==
    IF i > Len(x) THEN 0
    ELSE IF x[i] < y[i] THEN -1
    ELSE IF x[i] > y[i] THEN 1
    ELSE CompareBytes(x, y, i + 1)

Compare(x, y) ==
    IF x.bits < y.bits THEN -1
    ELSE IF x.bits > y.bits THEN 1
    ELSE CompareBytes(x.b, y.b, 1)

\* The bit operations of a byte: x | y and ^x.
RECURSIVE ByteOrBits(_, _, _)
ByteOrBits(x, y, n) ==
    IF n = 0 THEN 0
    ELSE (IF x % 2 = 1 \/ y % 2 = 1 THEN 1 ELSE 0)
         + 2 * ByteOrBits(x \div 2, y \div 2, n - 1)

ByteOr(x, y) == ByteOrBits(x, y, 8)

RECURSIVE ByteAndBits(_, _, _)
ByteAndBits(x, y, n) ==
    IF n = 0 THEN 0
    ELSE (IF x % 2 = 1 /\ y % 2 = 1 THEN 1 ELSE 0)
         + 2 * ByteAndBits(x \div 2, y \div 2, n - 1)

ByteAnd(x, y) == ByteAndBits(x, y, 8)

ByteNot(x) == 255 - x

\* net.CIDRMask(ones, bits): ones 1-bits followed by 0-bits, as bytes.
CIDRMask(ones, bits) ==
    [k \in 1..(bits \div 8) |->
        IF ones >= 8 * k THEN 255
        ELSE IF ones <= 8 * (k - 1) THEN 0
        ELSE 256 - 2^(8 * k - ones)]

\* dtoi: the decimal number a text of digits denotes; not ok for an empty
\* text and for one with another character.
RECURSIVE DtoiFrom(_, _, _)
DtoiFrom(s, i, n) ==
    IF i > Len(s) THEN [ok |-> Len(s) > 0, n |-> n]
    ELSE IF s[i] \notin DOMAIN DigitVal THEN [ok |-> FALSE, n |-> 0]
    ELSE IF n * 10 + DigitVal[s[i]] >= 16777215 THEN [ok |-> FALSE, n |-> 0]
    ELSE DtoiFrom(s, i + 1, n * 10 + DigitVal[s[i]])

NoIPNet == [IP |-> <<>>, Mask |-> <<>>]

\* net.ParseCIDR: [ok, ipNet]; ipNet.IP is the address with the mask
\* applied byte by byte, ipNet.Mask the mask.
ParseCIDR(s) ==
    LET i == IndexFrom(s, Slash, 1) IN
    IF i = 0 THEN [ok |-> FALSE, ipNet |-> NoIPNet]
    ELSE
    LET a == ParseAddr(SubSeq(s, 1, i - 1))
        n == DtoiFrom(SubSeq(s, i + 1, Len(s)), 1, 0)
    IN
    IF ~a.ok \/ ~n.ok THEN [ok |-> FALSE, ipNet |-> NoIPNet]
    ELSE IF n.n > a.addr.bits THEN [ok |-> FALSE, ipNet |-> NoIPNet]
    ELSE
    LET m == CIDRMask(n.n, a.addr.bits) IN
    [ok |-> TRUE,
     ipNet |-> [IP |-> [k \in 1..Len(m) |-> ByteAnd(a.addr.b[k], m[k])], Mask |-> m]]

\* netip.AddrFromSlice: an Addr from 4 or from 16 bytes, else not ok.
AddrFromSlice(bytes) ==
    IF Len(bytes) \in {4, 16}
    THEN [ok |-> TRUE, addr |-> [bits |-> 8 * Len(bytes), b |-> bytes]]
    ELSE ParseFail

(***************************************************************************)
(* Pool state loaders                                                      *)
(***************************************************************************)
\* Mutant of LoadCIDR: the broadcast address is the mask inverted.
LoadCIDRMaskOnly(cidr) ==
    LET p == ParseCIDR(cidr) IN
    IF ~p.ok
    THEN [ok |-> FALSE, ipNet |-> NoIPNet, networkIPAddr |-> ZeroAddr,
          broadcastIPAddr |-> ZeroAddr]
    ELSE
    [ok |-> TRUE, ipNet |-> p.ipNet,
     networkIPAddr |-> AddrFromSlice(p.ipNet.IP).addr,
     broadcastIPAddr |->
        AddrFromSlice([k \in 1..Len(p.ipNet.IP) |-> ByteNot(p.ipNet.Mask[k])]).addr]

\* LoadCIDR: [ok, ipNet, networkIPAddr, broadcastIPAddr].
LoadCIDR(cidr) ==
    LET p == ParseCIDR(cidr) IN
    IF ~p.ok
    THEN [ok |-> FALSE, ipNet |-> NoIPNet, networkIPAddr |-> ZeroAddr,
          broadcastIPAddr |-> ZeroAddr]
    ELSE
    LET n == AddrFromSlice(p.ipNet.IP)
        broadcastIP == [k \in 1..Len(p.ipNet.IP) |->
                           ByteOr(p.ipNet.IP[k], ByteNot(p.ipNet.Mask[k]))]
        bc == AddrFromSlice(broadcastIP)
    IN
    IF ~n.ok
    THEN [ok |-> FALSE, ipNet |-> p.ipNet, networkIPAddr |-> ZeroAddr,
          broadcastIPAddr |-> ZeroAddr]
    ELSE IF ~bc.ok
    THEN [ok |-> FALSE, ipNet |-> p.ipNet, networkIPAddr |-> n.addr,
          broadcastIPAddr |-> ZeroAddr]
    ELSE [ok |-> TRUE, ipNet |-> p.ipNet, networkIPAddr |-> n.addr,
          broadcastIPAddr |-> bc.addr]

\* The PoolInfo before LoadPool has set anything.
NoPoolInfo ==
    [IPNet |-> NoIPNet, NetworkIPAddr |-> ZeroAddr, BroadcastIPAddr |-> ZeroAddr,
     StartIPAddr |-> ZeroAddr, EndIPAddr |-> ZeroAddr, ServerIPAddr |-> ZeroAddr,
     RouterIPAddr |-> ZeroAddr]

\* The fields of the pool's IPv4 configuration that LoadPool parses after
\* the CIDR, in the order it parses them, with the PoolInfo field of each.
PoolFields ==
    << [from |-> "Start", to |-> "StartIPAddr"], [from |-> "End", to |-> "EndIPAddr"],
       [from |-> "ServerIP", to |-> "ServerIPAddr"],
       [from |-> "Router", to |-> "RouterIPAddr"] >>

\* The four "if field != "" { parse; if err != nil { return } }" blocks of
\* LoadPool from block i on.
RECURSIVE LoadPoolFrom(_, _, _)
LoadPoolFrom(ipPool, pi, i) ==
    IF i > Len(PoolFields) THEN [ok |-> TRUE, pi |-> pi]
    ELSE IF ipPool[PoolFields[i].from] = <<>>
    THEN LoadPoolFrom(ipPool, pi, i + 1)
    ELSE
    LET a == ParseAddr(ipPool[PoolFields[i].from])
        next == [pi EXCEPT ![PoolFields[i].to] = a.addr]
    IN IF ~a.ok THEN [ok |-> FALSE, pi |-> next]
       ELSE LoadPoolFrom(ipPool, next, i + 1)

\* Mutant of LoadPoolFrom: a field that does not parse is left unset and
\* the next one is parsed.
RECURSIVE LoadPoolFromLenient(_, _, _)
LoadPoolFromLenient(ipPool, pi, i) ==
    IF i > Len(PoolFields) THEN [ok |-> TRUE, pi |-> pi]
    ELSE IF ipPool[PoolFields[i].from] = <<>>
    THEN LoadPoolFromLenient(ipPool, pi, i + 1)
    ELSE
    LET a == ParseAddr(ipPool[PoolFields[i].from])
        next == [pi EXCEPT ![PoolFields[i].to] = a.addr]
    IN LoadPoolFromLenient(ipPool, next, i + 1)

\* Mutant of LoadPool: parse failures of the four fields are ignored.
LoadPoolLenient(ipPool) ==
    LET c == LoadCIDR(ipPool.CIDR)
        pi == [NoPoolInfo EXCEPT !.IPNet = c.ipNet, !.NetworkIPAddr = c.networkIPAddr,
                                 !.BroadcastIPAddr = c.broadcastIPAddr]
    IN IF ~c.ok THEN [ok |-> FALSE, pi |-> pi]
       ELSE LoadPoolFromLenient(ipPool, pi, 1)

\* LoadPool: [ok, pi]; ipPool is the IPv4 configuration of the pool, the
\* texts CIDR, Start, End, ServerIP and Router.
LoadPool(ipPool) ==
    LET c == LoadCIDR(ipPool.CIDR)
        pi == [NoPoolInfo EXCEPT !.IPNet = c.ipNet, !.NetworkIPAddr = c.networkIPAddr,
                                 !.BroadcastIPAddr = c.broadcastIPAddr]
    IN IF ~c.ok THEN [ok |-> FALSE, pi |-> pi]
       ELSE LoadPoolFrom(ipPool, pi, 1)

\* The markers of the allocation map.
ExcludedMark == "excluded"

ReservedMark == "reserved"

NoLists == [allocatedList |-> <<>>, excludedList |-> <<>>, reservedList |-> <<>>]

\* The loop of LoadAllocated over the keys in the order the map yields
\* them, from the i-th on.
RECURSIVE LoadAllocatedFrom(_, _, _, _)
LoadAllocatedFrom(allocated, order, i, lists) ==
    IF i > Len(order) THEN lists
    ELSE
    LET ip == order[i]
        val == allocated[ip]
        a == ParseAddr(ip)
    IN
    IF ~a.ok THEN LoadAllocatedFrom(allocated, order, i + 1, lists)
    ELSE IF val = ExcludedMark
    THEN LoadAllocatedFrom(allocated, order, i + 1,
            [lists EXCEPT !.excludedList = Append(@, a.addr)])
    ELSE IF val = ReservedMark
    THEN LoadAllocatedFrom(allocated, order, i + 1,
            [lists EXCEPT !.reservedList = Append(@, a.addr)])
    ELSE LoadAllocatedFrom(allocated, order, i + 1,
            [lists EXCEPT !.allocatedList = Append(@, a.addr)])

\* Mutant of LoadAllocated: the loop ends at the first key that does not
\* parse.
RECURSIVE LoadAllocatedBreaks(_, _)
LoadAllocatedBreaks(allocated, order) ==
    IF order = <<>> THEN NoLists
    ELSE IF ~ParseAddr(Head(order)).ok THEN NoLists
    ELSE LET rest == LoadAllocatedBreaks(allocated, Tail(order))
             first == LoadAllocatedFrom(allocated, <<Head(order)>>, 1, NoLists)
         IN [allocatedList |-> first.allocatedList \o rest.allocatedList,
             excludedList |-> first.excludedList \o rest.excludedList,
             reservedList |-> first.reservedList \o rest.reservedList]

\* LoadAllocated: allocated is the map from address text to marker, order
\* the order in which the range loop yields its keys.
LoadAllocated(allocated, order) == LoadAllocatedFrom(allocated, order, 1, NoLists)

\* IsIPAddrInList
IsIPAddrInList(ipAddr, ipAddrList) ==
    \E i \in 1..Len(ipAddrList) : ipAddr = ipAddrList[i]

\* Mutant of IsIPInBetweenOf: the upper bound is not part of the range.
IsIPInBetweenOfOpen(ip, ip1, ip2) ==
    LET ipAddr == ParseAddr(ip)
        ip1Addr == ParseAddr(ip1)
        ip2Addr == ParseAddr(ip2)
    IN IF ~ipAddr.ok THEN FALSE
       ELSE IF ~ip1Addr.ok THEN FALSE
       ELSE IF ~ip2Addr.ok THEN FALSE
       ELSE Compare(ipAddr.addr, ip1Addr.addr) >= 0 /\ Compare(ipAddr.addr, ip2Addr.addr) < 0

\* IsIPInBetweenOf
IsIPInBetweenOf(ip, ip1, ip2) ==
    LET ipAddr == ParseAddr(ip)
        ip1Addr == ParseAddr(ip1)
        ip2Addr == ParseAddr(ip2)
    IN IF ~ipAddr.ok THEN FALSE
       ELSE IF ~ip1Addr.ok THEN FALSE
       ELSE IF ~ip2Addr.ok THEN FALSE
       ELSE Compare(ipAddr.addr, ip1Addr.addr) >= 0 /\ Compare(ipAddr.addr, ip2Addr.addr) <= 0

(***************************************************************************)
(* Calls of the util package                                               *)
(*                                                                         *)
(* util holds one call: the function and its arguments, and once the call  *)
(* is done, what it returned.                                               *)
(***************************************************************************)
\* The interface definitions of NADs and d/k, whose label map is empty but
\* not nil.
NADsUtil ==
    NADs @@ (<< <<"d">>, <<"k">> >> :> [nil |-> FALSE, m |-> <<>>])

NetK == <<"k">>

\* Network names handed to the resolver: bare, qualified, with two
\* separators, with nothing before or after the separator, with spaces
\* around the separator, and empty.
ResolverNames ==
    { NetA, NetNB, NetC, NetE, NetF, NetG, NetH, NetK, <<>>,
      <<"d", "/", "a">>, <<"n", "/", "b", "/", "c">>, <<"d", "/", "a", "/">>,
      <<"/", "a">>, <<"a", "/">>, <<"n", " ", "/", " ", "b">> }

ResolverFallbacks == { <<>>, <<"d">>, <<"n">> }

\* The calls to make: the function and its arguments.
UtilCalls ==
    { [op |-> "GetIPPoolFromNetworkName", done |-> FALSE, networkName |-> networkName,
       fallbackNamespace |-> fallbackNamespace] :
        networkName \in ResolverNames, fallbackNamespace \in ResolverFallbacks }

GetIPPoolCall ==
    /\ util.op = "GetIPPoolFromNetworkName"
    /\ ~util.done
    /\ \E r \in {GetIPPoolFromNetworkName(nadCache, ippoolCache, util.networkName,
                                          util.fallbackNamespace)} :
          util' = [op |-> "GetIPPoolFromNetworkName", done |-> TRUE,
                   networkName |-> util.networkName,
                   fallbackNamespace |-> util.fallbackNamespace,
                   key |-> IF r.err.kind \in {"nad not found", "no labels", "no label"}
                           THEN <<r.err.ns, r.err.name>>
                           ELSE NadKey(util.networkName, util.fallbackNamespace),
                   pool |-> r.pool, err |-> r.err,
                   nads |-> nadCache, pools |-> ippoolCache]
    /\ UNCHANGED <<vm, nadCache, ippoolCache, store, cache, queued, last, admission>>

\* Address texts and the addresses they denote.
KnownAddrs ==
    (<<"1", "0", ".", "0", ".", "0", ".", "1">> :> [bits |-> 32, b |-> <<10, 0, 0, 1>>]) @@
    (<<"1", "0", ".", "0", ".", "0", ".", "5">> :> [bits |-> 32, b |-> <<10, 0, 0, 5>>]) @@
    (<<"1", "0", ".", "0", ".", "0", ".", "6">> :> [bits |-> 32, b |-> <<10, 0, 0, 6>>]) @@
    (<<"1", "0", ".", "0", ".", "0", ".", "7">> :> [bits |-> 32, b |-> <<10, 0, 0, 7>>]) @@
    (<<"1", "0", ".", "0", ".", "0", ".", "1", "0">> :> [bits |-> 32, b |-> <<10, 0, 0, 10>>]) @@
    (<<"1", "0", ".", "0", ".", "1", ".", "0">> :> [bits |-> 32, b |-> <<10, 0, 1, 0>>]) @@
    (LoopbackV6 :> [bits |-> 128, b |-> <<0, 0, 0, 0, 0, 0, 0, 0, 0, 0, 0, 0, 0, 0, 0, 1>>])

\* Texts that denote no address: an octet above 255, three and five
\* octets, an octet with a leading zero, an empty octet, a letter, and a
\* MAC address.
BadAddrs ==
    { <<"1", "0", ".", "0", ".", "0", ".", "2", "5", "6">>,
      <<"1", "0", ".", "0", ".", "0">>,
      <<"0", "1", "0", ".", "0", ".", "0", ".", "1">>,
      <<"1", "0", ".", "0", ".", "0", ".", "1", ".", "2">>,
      <<"1", "0", ".", ".", "0", ".", "1">>,
      <<"1", "0", ".", "0", ".", "0", ".", "x">>,
      <<"x">>,
      <<"a", "a", ":", "b", "b", ":", "c", "c", ":", "d", "d", ":", "e", "e", ":", "f", "f">> }

\* Well-formed IPv4 CIDR texts with the octets and the prefix length each
\* denotes.
CIDRCases ==
    { [text |-> <<"1", "0", ".", "0", ".", "0", ".", "0", "/", "2", "4">>,
       octets |-> <<10, 0, 0, 0>>, ones |-> 24],
      [text |-> <<"1", "0", ".", "0", ".", "0", ".", "7", "7", "/", "2", "4">>,
       octets |-> <<10, 0, 0, 77>>, ones |-> 24],
      [text |-> <<"1", "0", ".", "0", ".", "0", ".", "5", "/", "3", "2">>,
       octets |-> <<10, 0, 0, 5>>, ones |-> 32],
      [text |-> <<"1", "0", ".", "0", ".", "0", ".", "1", "3", "0", "/", "2", "5">>,
       octets |-> <<10, 0, 0, 130>>, ones |-> 25],
      [text |-> <<"1", "0", ".", "7", "7", ".", "3", ".", "9", "/", "1", "2">>,
       octets |-> <<10, 77, 3, 9>>, ones |-> 12],
      [text |-> <<"1", "0", ".", "1", ".", "2", ".", "3", "/", "8">>,
       octets |-> <<10, 1, 2, 3>>, ones |-> 8],
      [text |-> <<"1", "2", "7", ".", "2", "5", "5", ".", "2", "5", "5", ".", "2", "5", "5", "/", "2">>,
       octets |-> <<127, 255, 255, 255>>, ones |-> 2],
      [text |-> <<"1", "0", ".", "0", ".", "0", ".", "6", "/", "3", "1">>,
       octets |-> <<10, 0, 0, 6>>, ones |-> 31],
      [text |-> <<"1", "9", "2", ".", "1", "6", "8", ".", "1", ".", "1", "3", "0", "/", "2", "5">>,
       octets |-> <<192, 168, 1, 130>>, ones |-> 25],
      [text |-> <<"1", "7", "2", ".", "1", "6", ".", "5", ".", "4", "/", "0">>,
       octets |-> <<172, 16, 5, 4>>, ones |-> 0],
      [text |-> <<"2", "5", "5", ".", "2", "5", "5", ".", "2", "5", "5", ".", "2", "5", "5", "/", "1", "6">>,
       octets |-> <<255, 255, 255, 255>>, ones |-> 16] }

\* Malformed CIDR texts: no "/", a prefix above 32, no prefix, a prefix
\* that is no number, no address, an address that is none, the empty text.
MalformedCIDRs ==
    { <<"1", "0", ".", "0", ".", "0", ".", "0">>,
      <<"1", "0", ".", "0", ".", "0", ".", "0", "/", "3", "3">>,
      <<"1", "0", ".", "0", ".", "0", "/", "2", "4">>,
      <<"1", "0", ".", "0", ".", "0", ".", "0", "/">>,
      <<"1", "0", ".", "0", ".", "0", ".", "2", "5", "6", "/", "2", "4">>,
      <<"1", "0", ".", "0", ".", "0", ".", "0", "/", "x">>,
      <<"/", "2", "4">>,
      <<"1", "0", ".", "0", ".", "0", ".", "0", "/", "2", " ", "4">>,
      <<>> }

\* Largest number of entries of an allocation map.
MaxAlloc == 4

AllocKeys ==
    { <<"1", "0", ".", "0", ".", "0", ".", "5">>, <<"1", "0", ".", "0", ".", "0", ".", "6">>, <<"1", "0", ".", "0", ".", "0", ".", "7">>,
      <<"1", "0", ".", "0", ".", "0", ".", "2", "5", "6">>, <<"x">> }

AllocVals == { ExcludedMark, ReservedMark, "aa:bb:cc:dd:ee:ff" }

\* The allocation maps to load, each with an order in which the range loop
\* yields its keys.
AllocCalls ==
    UNION { { [op |-> "LoadAllocated", done |-> FALSE, allocated |-> allocated,
               order |-> order] :
                allocated \in [keys -> AllocVals], order \in Orders(keys) } :
            keys \in { k \in SUBSET AllocKeys : Cardinality(k) <= MaxAlloc } }

LoadAllocatedCall ==
    /\ util.op = "LoadAllocated"
    /\ ~util.done
    /\ util' = [op |-> "LoadAllocated", done |-> TRUE, allocated |-> util.allocated,
                order |-> util.order,
                lists |-> LoadAllocated(util.allocated, util.order)]
    /\ UNCHANGED <<vm, nadCache, ippoolCache, store, cache, queued, last, admission>>

CIDRCalls ==
    { [op |-> "LoadCIDR", done |-> FALSE, cidr |-> cidr] :
        cidr \in { c.text : c \in CIDRCases } \cup MalformedCIDRs }

LoadCIDRCall ==
    /\ util.op = "LoadCIDR"
    /\ ~util.done
    /\ util' = [op |-> "LoadCIDR", done |-> TRUE, cidr |-> util.cidr,
                r |-> LoadCIDR(util.cidr)]
    /\ UNCHANGED <<vm, nadCache, ippoolCache, store, cache, queued, last, admission>>

RangeTexts ==
    { <<"1", "0", ".", "0", ".", "0", ".", "1">>,
      <<"1", "0", ".", "0", ".", "0", ".", "5">>,
      <<"1", "0", ".", "0", ".", "0", ".", "1", "0">>,
      <<"1", "0", ".", "0", ".", "1", ".", "0">>,
      LoopbackV6, <<"1", "0", ".", "0", ".", "0", ".", "2", "5", "6">>, <<>> }

RangeCalls ==
    { [op |-> "IsIPInBetweenOf", done |-> FALSE, ip |-> ip, ip1 |-> ip1, ip2 |-> ip2] :
        ip \in RangeTexts, ip1 \in RangeTexts, ip2 \in RangeTexts }

IsIPInBetweenOfCall ==
    /\ util.op = "IsIPInBetweenOf"
    /\ ~util.done
    /\ util' = [op |-> "IsIPInBetweenOf", done |-> TRUE, ip |-> util.ip,
                ip1 |-> util.ip1, ip2 |-> util.ip2,
                r |-> IsIPInBetweenOf(util.ip, util.ip1, util.ip2)]
    /\ UNCHANGED <<vm, nadCache, ippoolCache, store, cache, queued, last, admission>>

\* What a field of the pool's configuration can hold: nothing, an
\* address, or a text that is none.
FieldTexts == { <<>>, <<"1", "0", ".", "0", ".", "0", ".", "5">>, <<"1", "0", ".", "0", ".", "0", ".", "2", "5", "6">> }

PoolConfigs ==
    [CIDR : { <<"1", "0", ".", "0", ".", "0", ".", "0", "/", "2", "4">>, <<"1", "0", ".", "0", ".", "0", ".", "0", "/", "3", "3">> },
     Start : FieldTexts, End : FieldTexts, ServerIP : FieldTexts, Router : FieldTexts]

PoolCalls ==
    { [op |-> "LoadPool", done |-> FALSE, ipPool |-> ipPool] : ipPool \in PoolConfigs }

LoadPoolCall ==
    /\ util.op = "LoadPool"
    /\ ~util.done
    /\ util' = [op |-> "LoadPool", done |-> TRUE, ipPool |-> util.ipPool,
                r |-> LoadPool(util.ipPool)]
    /\ UNCHANGED <<vm, nadCache, ippoolCache, store, cache, queued, last, admission>>

InitUtil ==
    /\ vm = NilVM
    /\ nadCache = NADsUtil
    /\ ippoolCache = PoolsAll
    /\ store = Absent
    /\ cache = Absent
    /\ queued = FALSE
    /\ last = NoPass("Init", 0)
    /\ admission = NoAdmission
    /\ util \in UtilCalls \cup AllocCalls \cup CIDRCalls \cup RangeCalls \cup PoolCalls

NextUtil ==
    \/ GetIPPoolCall
    \/ LoadAllocatedCall
    \/ LoadCIDRCall
    \/ IsIPInBetweenOfCall
    \/ LoadPoolCall

SpecUtil == InitUtil /\ [][NextUtil]_vars

(***************************************************************************)
(* Calls of applyMACAddressAnnotation                                      *)
(*                                                                         *)
(* vm is the object handed to the call; util records the call: v is the    *)
(* VM as it was handed over and r what the call returned.                  *)
(***************************************************************************)
\* The annotation maps a call can find on the VM: none, an empty text, texts
\* that are no JSON object of strings, and objects naming no interface, an
\* interface with an empty MAC, one interface, an interface the VM may lack,
\* and two interfaces.
BackfillAnnotations ==
    { <<>> } \cup
    { (macAddressAnnotation :> raw) :
        raw \in { "", "{}", "null", "{\"nic1\":\"m9\"}", "{\"nic1\":\"\"}",
                  "{\"nic2\":\"m8\"}", "{\"nic1\":\"m9\",\"nic2\":\"m8\"}",
                  "{\"nic3\":\"m7\"}", "{\"nic1\":5}", "nic1=m9" } }

BackfillNics == { Nic(n, m) : n \in {"nic1", "nic2"}, m \in {"", "m1"} }

\* The interface lists of a call: none, one or two of BackfillNics.
BackfillInterfaces ==
    { <<>> } \cup { <<a>> : a \in BackfillNics }
             \cup { <<a, b>> : a \in BackfillNics, b \in BackfillNics }

BackfillVMs ==
    { MkVM(FALSE, ann, nics, <<Multus("nic1", NetA)>>) :
        ann \in BackfillAnnotations, nics \in BackfillInterfaces }

applyMACAddressAnnotationCall ==
    /\ util.op = "applyMACAddressAnnotation"
    /\ ~util.done
    /\ \E r \in {applyMACAddressAnnotation(vm)} :
          /\ vm' = r.arg
          /\ util' = [op |-> "applyMACAddressAnnotation", done |-> TRUE, v |-> vm,
                      r |-> [vm |-> r.vm, updated |-> r.updated, err |-> r.err]]
    /\ UNCHANGED <<nadCache, ippoolCache, store, cache, queued, last, admission>>

InitBackfill ==
    /\ vm \in BackfillVMs
    /\ nadCache = NADs
    /\ ippoolCache = PoolsAll
    /\ store = Absent
    /\ cache = Absent
    /\ queued = FALSE
    /\ last = NoPass("Init", 0)
    /\ admission = NoAdmission
    /\ util = [op |-> "applyMACAddressAnnotation", done |-> FALSE]

NextBackfill == applyMACAddressAnnotationCall

SpecBackfill == InitBackfill /\ [][NextBackfill]_vars

(***************************************************************************)
(* Properties of the reconciliation protocol                               *)
(***************************************************************************)
\* The pass recorded in last got as far as reading the network-config
\* resource from the cache, and read it without error.
ReadCache ==
    /\ last.kind = "OnChange"
    /\ last.desired # <<>>
    /\ last.branch # "geterr"

\* The pass attempted no write and no enqueue.
Quiet(l) == l.vmWrite = "none" /\ l.ncCall = "none" /\ ~l.enqueued

\* C1: signal before data.  In every step, of every interleaving of passes,
\* engine steps and cache refreshes, the stored spec of an existing resource
\* changes only from a state in which the stored in-sync condition is False,
\* and the condition is still False once the new spec is stored.
C1_SignalBeforeData ==
    [][ (store.exists /\ store'.exists /\ store'.spec # store.spec)
            => (store.cond = ConditionFalse /\ store'.cond = ConditionFalse) ]_vars

\* A pass has overwritten the spec of a resource the engine had not yet
\* reported in sync.
C1_Witness ==
    /\ last.kind = "OnChange"
    /\ last.ncCall = "update"
    /\ last.ncOk
    /\ last.preStore.cond = ConditionFalse
    /\ store.spec # last.preStore.spec

\* C2: Synced branch.  A pass that reads an existing resource whose spec
\* differs from the desired list and whose condition is True or unset
\* attempts exactly one network-config write, UpdateStatus; the stored spec
\* stays what it was; when the write is persisted the stored condition is
\* False with reason NetworkConfigChanged and the VM is enqueued, and when
\* it is not persisted the resource is unchanged and nothing is enqueued.
C2_SyncedBranch ==
    (/\ ReadCache
     /\ last.old.exists
     /\ last.old.spec # last.desired
     /\ last.old.cond \in {ConditionTrue, ConditionUnset})
    => /\ last.ncCall = "updateStatus"
       /\ store.spec = last.preStore.spec
       /\ last.enqueued <=> last.ncOk
       /\ last.ncOk => /\ store.cond = ConditionFalse
                       /\ store.reason = "NetworkConfigChanged"
       /\ ~last.ncOk => store = last.preStore

C2_Witness ==
    /\ ReadCache
    /\ last.old.exists
    /\ last.old.spec # last.desired
    /\ last.old.cond = ConditionTrue
    /\ last.ncOk
    /\ last.enqueued
    /\ store.cond = ConditionFalse
    /\ store.spec = last.old.spec

\* C3: two-pass completion.  A fault-free pass that directly follows the
\* pass that flipped the condition to False and enqueued the VM, reads the
\* refreshed cache and still derives a network set other than the stored
\* one, overwrites the stored spec with its desired list by an Update while
\* the condition is False, and enqueues nothing.
C3_TwoPass ==
    (/\ last.kind = "OnChange"
     /\ last.prevPass
     /\ last.prevCall = "updateStatus"
     /\ last.fresh
     /\ ~last.err
     /\ Range(last.desired) # Range(last.old.spec))
    => /\ last.ncCall = "update"
       /\ last.ncOk
       /\ last.old.cond = ConditionFalse
       /\ store.spec = last.desired
       /\ store.cond = ConditionFalse
       /\ ~last.enqueued

C3_Witness ==
    /\ last.kind = "OnChange"
    /\ last.prevPass
    /\ last.prevCall = "updateStatus"
    /\ last.fresh
    /\ last.ncCall = "update"
    /\ last.ncOk
    /\ store.spec = last.desired
    /\ store.spec # last.preStore.spec
    /\ store.cond = ConditionFalse

\* C4: OutOfSync branch.  A pass that reads an existing resource whose spec
\* differs from the desired list and whose condition is False attempts
\* exactly one network-config write, Update, and no enqueue; the stored
\* condition is untouched; when the write is persisted the stored spec is
\* the desired list, so after any run of such passes the stored spec is the
\* last desired list.
C4_OutOfSyncBranch ==
    (/\ ReadCache
     /\ last.old.exists
     /\ last.old.spec # last.desired
     /\ last.old.cond = ConditionFalse)
    => /\ last.ncCall = "update"
       /\ ~last.enqueued
       /\ store.cond = last.preStore.cond
       /\ store.reason = last.preStore.reason
       /\ last.ncOk => (store.spec = last.desired /\ last.streak >= 1)
       /\ ~last.ncOk => store = last.preStore

\* Two VM changes in a row were each written straight into the spec of a
\* resource that stayed OutOfSync.
C4_Witness ==
    /\ ReadCache
    /\ last.old.cond = ConditionFalse
    /\ Range(last.old.spec) # Range(last.desired)
    /\ last.ncCall = "update"
    /\ last.ncOk
    /\ last.streak >= 2
    /\ store.spec = last.desired
    /\ store.cond = ConditionFalse

C6_BackfillStopsPass ==
    (/\ last.kind = "OnChange"
     /\ last.updated
     /\ last.vmWrite = "ok")
    => last.ncCall = "none"

\* C9: write ownership.  No step deletes the resource; a step that changes
\* the stored condition is either a pass, which leaves it False, or an
\* engine step, which leaves it True; a step that changes the stored spec
\* is a pass.
C9_WriteOwnership ==
    [][ /\ store.exists => store'.exists
        /\ store'.cond # store.cond =>
              \/ (last'.kind = "OnChange" /\ store'.cond = ConditionFalse)
              \/ (last'.kind = "EngineSync" /\ store'.cond = ConditionTrue)
        /\ store'.spec # store.spec => last'.kind = "OnChange" ]_vars

\* The reconciler has flipped to False a condition the engine had set True.
C9_Witness ==
    /\ last.kind = "OnChange"
    /\ last.ncCall = "updateStatus"
    /\ last.ncOk
    /\ last.preStore.cond = ConditionTrue
    /\ store.cond = ConditionFalse
    /\ store.spec = last.preStore.spec

\* C10: absent resource.  A pass that derives a non-empty list and finds no
\* resource in the cache attempts exactly one network-config write, Create,
\* and no enqueue; when the write is persisted the stored resource carries
\* the VM's namespace and name, the desired list as its spec and an unset
\* condition; when it is not, the store is unchanged.
C10_CreateWhenAbsent ==
    (/\ ReadCache
     /\ ~last.old.exists)
    => /\ last.ncCall = "create"
       /\ ~last.enqueued
       /\ last.ncOk => /\ ~last.preStore.exists
                       /\ store.exists
                       /\ store.namespace = vm.namespace
                       /\ store.name = vm.name
                       /\ store.spec = last.desired
                       /\ store.cond = ConditionUnset
       /\ ~last.ncOk => store = last.preStore

C10_Witness ==
    /\ ReadCache
    /\ ~last.old.exists
    /\ last.ncCall = "create"
    /\ last.ncOk
    /\ store.exists
    /\ store.spec = last.desired
    /\ store.cond = ConditionUnset

\* C11: a persistence failure aborts the pass.  A pass whose VM update
\* failed returns the error, leaves the VM as it was and attempts no
\* network-config write; a pass whose cache read failed (other than
\* not-found) returns the error and attempts no write; a pass whose Create,
\* Update or UpdateStatus failed returns the error, leaves the store as it
\* was and enqueues nothing.  After a pass that returned an error the store
\* is unchanged, and a pass run afresh from the state the failed pass left
\* does, for every listing order, what a pass run from the state before it
\* does: same VM, same stored resource, same write, same enqueue.
C11_FailureAborts ==
    last.kind = "OnChange" =>
        /\ last.vmWrite = "fail" =>
              /\ last.err
              /\ vm = last.preVM
              /\ last.ncCall = "none"
        /\ last.branch = "geterr" => (last.err /\ last.ncCall = "none")
        /\ (last.ncCall # "none" /\ ~last.ncOk) => last.err
        /\ last.err =>
              /\ ~last.enqueued
              /\ store = last.preStore
              /\ \A order \in Orders(DOMAIN PassNCM(nadCache, ippoolCache,
                                                   BackfillStep(vm, FALSE))) :
                    LET again == PassResult(vm, store, last.old, nadCache,
                                            ippoolCache, "none", order)
                        first == PassResult(last.preVM, last.preStore, last.old,
                                            nadCache, ippoolCache, "none", order)
                    IN /\ again.vm = first.vm
                       /\ again.store = first.store
                       /\ again.call = first.call
                       /\ again.enqueued = first.enqueued

\* The status write of the Synced branch failed: nothing was enqueued and
\* the resource is as it was.
C11_Witness ==
    /\ last.kind = "OnChange"
    /\ last.branch = "synced"
    /\ last.ncCall = "updateStatus"
    /\ ~last.ncOk
    /\ last.err
    /\ ~last.enqueued
    /\ store = last.preStore
    /\ store.cond = ConditionTrue

(***************************************************************************)
(* Properties of the desired mapping and of admission                      *)
(***************************************************************************)
\* The network name, looked up the way the resolver's contract says (the
\* part before the "/" is the namespace, a bare name lives in ns), names an
\* interface definition whose labels name a pool that exists.
ResolvesTo(networkName, ns) ==
    \E key \in DOMAIN nadCache :
        /\ \/ networkName = key[1] \o <<Slash>> \o key[2]
           \/ (Slash \notin Range(networkName) /\ key = <<ns, networkName>>)
        /\ ~nadCache[key].nil
        /\ {IPPoolNamespaceLabelKey, IPPoolNameLabelKey} \subseteq DOMAIN nadCache[key].m
        /\ <<nadCache[key].m[IPPoolNamespaceLabelKey],
             nadCache[key].m[IPPoolNameLabelKey]>> \in DOMAIN ippoolCache

\* The interfaces of v that are to be DHCP-managed: a MAC, a Multus network
\* of the same name with a network name, and that name resolves.
Managed(v) ==
    { i \in 1..Len(v.interfaces) :
        /\ v.interfaces[i].mac # ""
        /\ \E j \in 1..Len(v.networks) :
              /\ v.networks[j].name = v.interfaces[i].name
              /\ v.networks[j].multus
              /\ v.networks[j].networkName # <<>>
              /\ ResolvesTo(v.networks[j].networkName, v.namespace) }

ManagedPairs(v) ==
    { [NetworkName |-> v.networks[p[2]].networkName,
       MACAddress |-> v.interfaces[p[1]].mac] :
        p \in { q \in Managed(v) \X (1..Len(v.networks)) :
                  /\ v.networks[q[2]].name = v.interfaces[q[1]].name
                  /\ v.networks[q[2]].multus } }

\* C7: content of the desired mapping.  In a pass over a live VM whose VM
\* update did not fail, the list derived holds exactly one pair for each
\* managed interface and nothing else; it is what a persisted Create or
\* Update stores; and the pass returns an error only for a failed read or
\* write, never for a network that does not resolve.
C7_DesiredMapping ==
    (/\ last.kind = "OnChange"
     /\ vm.exists
     /\ ~vm.deleting
     /\ last.vmWrite # "fail")
    => /\ Range(last.desired) = ManagedPairs(vm)
       /\ Len(last.desired) = Cardinality(Managed(vm))
       /\ (last.ncOk /\ last.ncCall \in {"create", "update"}) => store.spec = last.desired
       /\ last.err => (last.branch = "geterr" \/ (last.ncCall # "none" /\ ~last.ncOk))

\* A VM with two Multus networks and two MACs, of which one network
\* resolves, got a resource with exactly that one.
C7_Witness ==
    /\ last.kind = "OnChange"
    /\ last.ncCall = "create"
    /\ last.ncOk
    /\ Len(vm.interfaces) = 2
    /\ \A i \in 1..2 : vm.interfaces[i].mac # ""
    /\ Len(vm.networks) = 2
    /\ \A j \in 1..2 : vm.networks[j].multus /\ vm.networks[j].networkName # <<>>
    /\ Len(store.spec) = 1
    /\ store.spec[1] = [NetworkName |-> NetA, MACAddress |-> vm.interfaces[1].mac]

\* The entries of the request that do not resolve.
Unresolved(obj) ==
    { i \in 1..Len(obj.spec) : ~ResolvesTo(obj.spec[i].NetworkName, obj.namespace) }

\* C8: the validator is fail-closed.  A create request is accepted exactly
\* when every network reference of its spec resolves with the resource's
\* namespace as fallback; a rejection carries the kind, namespace and name
\* of the resource and the resolver's error for the first reference that
\* does not resolve.
C8_FailClosed ==
    admission.asked =>
        /\ admission.ok <=> Unresolved(admission.obj) = {}
        /\ ~admission.ok =>
              LET first == CHOOSE i \in Unresolved(admission.obj) :
                              \A k \in Unresolved(admission.obj) : i <= k
              IN /\ admission.kind = VMNetCfgKind
                 /\ admission.namespace = admission.obj.namespace
                 /\ admission.name = admission.obj.name
                 /\ admission.cause # NoErr
                 /\ admission.cause =
                      GetIPPoolFromNetworkName(nadCache, ippoolCache,
                          admission.obj.spec[first].NetworkName,
                          admission.obj.namespace).err

\* A request whose second network names an interface definition without
\* the pool-name label was rejected with an error naming that definition.
C8_Witness ==
    /\ admission.asked
    /\ ~admission.ok
    /\ Len(admission.obj.spec) = 2
    /\ admission.obj.spec[1].NetworkName = NetA
    /\ admission.obj.spec[2].NetworkName = NetG
    /\ admission.cause.kind = "no label"
    /\ admission.cause.label = IPPoolNameLabelKey
    /\ admission.cause.name = NetG

(***************************************************************************)
(* Properties of the passes that leave the resource alone                  *)
(***************************************************************************)
\* C18: no-op passes.  A pass handed a nil VM or a VM with a deletion
\* timestamp, a VM that declares no interfaces, or a VM none of whose
\* interfaces is left in the desired mapping after filtering, attempts no
\* write of the network-config resource and enqueues nothing: the stored
\* resource, when there is one, keeps its spec and its condition.
C18_NoOpPasses ==
    (/\ last.kind = "OnChange"
     /\ \/ ~last.preVM.exists
        \/ last.preVM.deleting
        \/ Len(last.preVM.interfaces) = 0
        \/ ManagedPairs(vm) = {})
    => /\ last.ncCall = "none"
       /\ ~last.enqueued
       /\ store = last.preStore

\* A pass over a VM whose only network has no pool any more found the
\* resource written for its earlier network and left it alone.
C18_Witness ==
    /\ last.kind = "OnChange"
    /\ vm.exists
    /\ ~vm.deleting
    /\ Len(vm.interfaces) > 0
    /\ ManagedPairs(vm) = {}
    /\ ~last.err
    /\ last.old.exists
    /\ last.old.spec # <<>>
    /\ store = last.old

\* C19: present and equal is a no-op.  A pass that reads an existing
\* resource whose spec equals the list the pass derived attempts no write of
\* the resource and enqueues nothing, whether the condition it read is
\* True, False or unset: the stored resource, its condition included, is
\* what it was.
C19_PresentAndEqual ==
    (/\ ReadCache
     /\ last.old.exists
     /\ last.old.spec = last.desired)
    => /\ last.old.cond \in {ConditionTrue, ConditionFalse, ConditionUnset}
       /\ last.ncCall = "none"
       /\ ~last.enqueued
       /\ ~last.err
       /\ store = last.preStore

\* A pass found the resource out of sync with the very spec it derived and
\* left the condition False.
C19_Witness ==
    /\ ReadCache
    /\ last.old.exists
    /\ last.old.spec = last.desired
    /\ last.old.cond = ConditionFalse
    /\ last.fresh
    /\ store.cond = ConditionFalse
    /\ store.spec = last.desired

\* C20: order-independent equality.  A pass that reads an existing resource
\* whose spec lists the same {network name, MAC} pairs as the list the pass
\* derived, in whatever order, writes neither the condition nor the spec
\* of the resource.
C20_OrderIndependent ==
    (/\ ReadCache
     /\ last.old.exists
     /\ Len(last.old.spec) = Len(last.desired)
     /\ Range(last.old.spec) = Range(last.desired))
    => /\ last.ncCall = "none"
       /\ store = last.preStore

(***************************************************************************)
(* Convergence                                                             *)
(***************************************************************************)
\* The stored resource lists exactly the pairs the VM's managed interfaces
\* give, and no pass is waiting.
Settled ==
    /\ store.exists
    /\ Range(store.spec) = ManagedPairs(vm)
    /\ Len(store.spec) = Cardinality(Managed(vm))
    /\ ~queued

\* The VM is one OnChange acts on and has a managed interface.
HasDesired == vm.exists /\ ~vm.deleting /\ ManagedPairs(vm) # {}

C23_OutputPassesAdmission ==
    (/\ last.kind = "OnChange"
     /\ last.ncCall = "create"
     /\ last.ncOk)
    => /\ store.exists
       /\ store.namespace = vm.namespace
       /\ store.name = vm.name
       /\ store.spec = last.desired
       /\ store.spec # <<>>
       /\ \A i \in 1..Len(store.spec) :
             /\ store.spec[i].MACAddress # ""
             /\ store.spec[i].NetworkName # <<>>
       /\ Create(nadCache, ippoolCache, store).ok

\* A pass over a VM with two interfaces that have MACs and Multus networks,
\* one of which the validator would turn down, created a resource with the
\* other one alone, and the validator accepts it.
C23_Witness ==
    /\ last.kind = "OnChange"
    /\ last.ncCall = "create"
    /\ last.ncOk
    /\ Len(vm.interfaces) = 2
    /\ \A i \in 1..2 : vm.interfaces[i].mac # ""
    /\ Len(vm.networks) = 2
    /\ \A j \in 1..2 : vm.networks[j].multus /\ vm.networks[j].networkName # <<>>
    /\ Len(store.spec) = 1
    /\ Create(nadCache, ippoolCache, store).ok
    /\ ~Create(nadCache, ippoolCache,
               [store EXCEPT !.spec =
                   <<[NetworkName |-> vm.networks[1].networkName,
                      MACAddress |-> vm.interfaces[1].mac],
                     [NetworkName |-> vm.networks[2].networkName,
                      MACAddress |-> vm.interfaces[2].mac]>>]).ok

(***************************************************************************)
(* Properties of the MAC backfill                                          *)
(***************************************************************************)
\* The MACs an annotation text supplies, by interface name: what the texts
\* that are JSON objects of strings say, and nothing for any other text.
Supplies(raw) ==
    CASE raw = "{\"nic1\":\"m9\"}" -> { <<"nic1", "m9">> }
      [] raw = "{\"nic2\":\"m8\"}" -> { <<"nic2", "m8">> }
      [] raw = "{\"nic1\":\"m9\",\"nic2\":\"m8\"}" -> { <<"nic1", "m9">>, <<"nic2", "m8">> }
      [] raw = "{\"nic3\":\"m7\"}" -> { <<"nic3", "m7">> }
      [] OTHER -> {}

\* The name/MAC pairs the annotation of the VM handed to the latest call
\* supplies.
Supplied ==
    IF macAddressAnnotation \in DOMAIN util.v.annotations
    THEN Supplies(util.v.annotations[macAddressAnnotation])
    ELSE {}

\* The interfaces the latest call changed.
Changed ==
    { i \in 1..Len(util.v.interfaces) : util.r.vm.interfaces[i] # util.v.interfaces[i] }

\* C21: MAC backfill rule.  The VM returned differs from the VM handed over
\* in the MACs of its interfaces at most; an interface is changed exactly
\* when its MAC was empty and the annotation supplies a MAC for its name,
\* and then its MAC is the supplied one, so an interface that has a MAC is
\* never changed; updated is true exactly when some interface was changed;
\* no error is returned; with a missing, empty or unparsable annotation the
\* VM returned is the VM handed over and updated is false; the object
\* handed over is after the call what it was before.
C21_BackfillRule ==
    (util.op = "applyMACAddressAnnotation" /\ util.done) =>
        /\ util.r.vm = [util.v EXCEPT !.interfaces = util.r.vm.interfaces]
        /\ Len(util.r.vm.interfaces) = Len(util.v.interfaces)
        /\ \A i \in 1..Len(util.v.interfaces) :
              /\ util.r.vm.interfaces[i].name = util.v.interfaces[i].name
              /\ i \in Changed <=>
                    /\ util.v.interfaces[i].mac = ""
                    /\ \E p \in Supplied : p[1] = util.v.interfaces[i].name
              /\ i \in Changed =>
                    <<util.v.interfaces[i].name, util.r.vm.interfaces[i].mac>> \in Supplied
        /\ util.r.updated <=> Changed # {}
        /\ ~util.r.err
        /\ Supplied = {} => (util.r.vm = util.v /\ ~util.r.updated)
        /\ vm = util.v

\* Of two interfaces named by the annotation, the one without a MAC got the
\* annotation's and the one with a MAC kept its own.
C21_Witness ==
    /\ util.op = "applyMACAddressAnnotation"
    /\ util.done
    /\ util.r.updated
    /\ Supplied = { <<"nic1", "m9">>, <<"nic2", "m8">> }
    /\ util.v.interfaces = <<Nic("nic1", ""), Nic("nic2", "m1")>>
    /\ util.r.vm.interfaces = <<Nic("nic1", "m9"), Nic("nic2", "m1")>>
    /\ vm = util.v

(***************************************************************************)
(* Properties of the util package                                          *)
(***************************************************************************)
\* t is s without the spaces at its two ends.
IsTrimOf(t, s) ==
    \E a \in 1..(Len(s) + 1), b \in 0..Len(s) :
        /\ t = SubSeq(s, a, b)
        /\ \A k \in 1..Len(s) : (k < a \/ k > b) => s[k] = " "
        /\ t # <<>> => (t[1] # " " /\ t[Len(t)] # " ")

\* The positions of the separator in the network name of the latest call.
Slashes == { i \in 1..Len(util.networkName) : util.networkName[i] = Slash }

CalledLabels == util.nads[util.key]

LabelledPool ==
    <<CalledLabels.m[IPPoolNamespaceLabelKey], CalledLabels.m[IPPoolNameLabelKey]>>

MissingLabelKinds == {"no labels", "no label"}

\* The outcomes of the resolver that C13 states alike in both readings: the
\* interface definition is absent, the pool is absent, the pool is found;
\* and no cache is changed.
ResolverOutcomes ==
    /\ util.key \notin DOMAIN util.nads =>
          /\ util.err.kind = "nad not found"
          /\ util.err.notFound
          /\ <<util.err.ns, util.err.name>> = util.key
          /\ util.pool = NoPool
    /\ (/\ util.key \in DOMAIN util.nads
        /\ ~CalledLabels.nil
        /\ {IPPoolNamespaceLabelKey, IPPoolNameLabelKey} \subseteq DOMAIN CalledLabels.m) =>
          IF LabelledPool \in DOMAIN util.pools
          THEN /\ util.err = NoErr
               /\ util.pool = util.pools[LabelledPool]
          ELSE /\ util.err.kind = "ippool not found"
               /\ util.err.notFound
               /\ <<util.err.ns, util.err.name>> = LabelledPool
               /\ util.pool = NoPool
    /\ nadCache = util.nads
    /\ ippoolCache = util.pools

\* C13 as stated: besides the outcomes above, a nil label map and a label
\* map without one of the two pool labels each give a missing-label error
\* that names a key the map lacks.
C13_ResolverOutcomes ==
    (util.op = "GetIPPoolFromNetworkName" /\ util.done) =>
        /\ ResolverOutcomes
        /\ (/\ util.key \in DOMAIN util.nads
            /\ \/ CalledLabels.nil
               \/ ~({IPPoolNamespaceLabelKey, IPPoolNameLabelKey} \subseteq DOMAIN CalledLabels.m)) =>
              /\ util.err.kind \in MissingLabelKinds
              /\ util.err.label \in {IPPoolNamespaceLabelKey, IPPoolNameLabelKey}
              /\ util.err.label \notin DOMAIN CalledLabels.m
              /\ util.pool = NoPool

\* C13 amended: a nil label map gives a missing-labels error that names
\* the interface definition and no key; a label map that is not nil and
\* lacks a pool label gives a missing-label error naming the pool-namespace
\* key when that one is absent, else the pool-name key.
C13_ResolverOutcomesNilUnnamed ==
    (util.op = "GetIPPoolFromNetworkName" /\ util.done) =>
        /\ ResolverOutcomes
        /\ (util.key \in DOMAIN util.nads /\ CalledLabels.nil) =>
              /\ util.err.kind = "no labels"
              /\ util.err.label = ""
              /\ <<util.err.ns, util.err.name>> = util.key
              /\ util.pool = NoPool
        /\ (/\ util.key \in DOMAIN util.nads
            /\ ~CalledLabels.nil
            /\ ~({IPPoolNamespaceLabelKey, IPPoolNameLabelKey} \subseteq DOMAIN CalledLabels.m)) =>
              /\ util.err.kind = "no label"
              /\ util.err.label =
                    (IF IPPoolNamespaceLabelKey \notin DOMAIN CalledLabels.m
                     THEN IPPoolNamespaceLabelKey ELSE IPPoolNameLabelKey)
              /\ <<util.err.ns, util.err.name>> = util.key
              /\ util.pool = NoPool

\* A qualified name was resolved from the other namespace to the pool its
\* interface definition's labels name.
C13_Witness ==
    /\ util.op = "GetIPPoolFromNetworkName"
    /\ util.done
    /\ util.networkName = NetNB
    /\ util.fallbackNamespace = <<"d">>
    /\ util.err = NoErr
    /\ util.pool = Pool(<<"n">>, <<"q">>)

\* The keys of the allocation map of the latest call that denote an
\* address.
Parsable == { k \in DOMAIN util.allocated : k \in DOMAIN KnownAddrs }

\* The addresses of the parsable keys whose marker is in marks.
Marked(marks) == { KnownAddrs[k] : k \in { q \in Parsable : util.allocated[q] \in marks } }

\* C14: LoadAllocated partitions the allocation map.  The excluded list
\* holds the addresses of the parsable keys marked excluded, the reserved
\* list those marked reserved, the allocated list those of every other
\* parsable key; the three lengths sum to the number of parsable keys, so no
\* address is listed twice; and the lists are those of the map without its
\* unparsable keys.
C14_LoadAllocatedPartition ==
    (util.op = "LoadAllocated" /\ util.done) =>
        /\ Parsable = DOMAIN util.allocated \ BadAddrs
        /\ Range(util.lists.excludedList) = Marked({ExcludedMark})
        /\ Range(util.lists.reservedList) = Marked({ReservedMark})
        /\ Range(util.lists.allocatedList) = Marked(AllocVals \ {ExcludedMark, ReservedMark})
        /\ Len(util.lists.excludedList) + Len(util.lists.reservedList)
              + Len(util.lists.allocatedList) = Cardinality(Parsable)
        /\ util.lists =
              LoadAllocated([k \in Parsable |-> util.allocated[k]],
                            SelectSeq(util.order, LAMBDA k : k \in Parsable))

\* The map of three addresses, one of each kind, and a key that is no
\* address gave three lists of one address each.
C14_Witness ==
    /\ util.op = "LoadAllocated"
    /\ util.done
    /\ util.allocated =
          (<<"1", "0", ".", "0", ".", "0", ".", "5">> :> ExcludedMark)
          @@ (<<"1", "0", ".", "0", ".", "0", ".", "6">> :> ReservedMark)
          @@ (<<"1", "0", ".", "0", ".", "0", ".", "7">> :> "aa:bb:cc:dd:ee:ff")
          @@ (<<"x">> :> ReservedMark)
    /\ util.lists.excludedList = <<[bits |-> 32, b |-> <<10, 0, 0, 5>>]>>
    /\ util.lists.reservedList = <<[bits |-> 32, b |-> <<10, 0, 0, 6>>]>>
    /\ util.lists.allocatedList = <<[bits |-> 32, b |-> <<10, 0, 0, 7>>]>>

\* The number that bytes denote, most significant byte first.
RECURSIVE Value(_)
Value(bytes) ==
    IF bytes = <<>> THEN 0
    ELSE 256 * Value(SubSeq(bytes, 1, Len(bytes) - 1)) + bytes[Len(bytes)]

\* x sorts before y: an IPv4 address before an IPv6 address, addresses of
\* one kind by the numbers they denote, which is the order of their bytes
\* read from the most significant one.
Before(x, y) ==
    \/ x.bits < y.bits
    \/ /\ x.bits = y.bits
       /\ \E i \in 1..Len(x.b) :
             /\ x.b[i] < y.b[i]
             /\ \A j \in 1..(i - 1) : x.b[j] = y.b[j]

\* The network address and the broadcast address, as bytes, of the prefix
\* of length ones that holds the address of the four octets: with the
\* address split in its upper and its lower 16 bits, the bits after the
\* first ones bits are zeroed for the one and set for the other.
PrefixEnds(octets, ones) ==
    LET hi == Value(SubSeq(octets, 1, 2))
        lo == Value(SubSeq(octets, 3, 4))
        hiSize == IF ones >= 16 THEN 1 ELSE 2^(16 - ones)
        loSize == IF ones >= 16 THEN 2^(32 - ones) ELSE 65536
        netHi == hi - (hi % hiSize)
        netLo == lo - (lo % loSize)
        Bytes(h, l) == <<h \div 256, h % 256, l \div 256, l % 256>>
    IN [network |-> Bytes(netHi, netLo),
        broadcast |-> Bytes(netHi + hiSize - 1, netLo + loSize - 1)]

\* C15: LoadCIDR.  For a well-formed IPv4 CIDR the call succeeds; the
\* network address is the IPv4 address with the host bits zeroed, which is
\* also the address of the prefix returned; the broadcast address is the
\* IPv4 address with the host bits set; so network <= broadcast, and both
\* agree with the address of the CIDR on the bits of the prefix.  For a
\* malformed text the call returns an error.
C15_LoadCIDR ==
    (util.op = "LoadCIDR" /\ util.done) =>
        /\ \A c \in CIDRCases :
              c.text = util.cidr =>
                /\ util.r.ok
                /\ util.r.networkIPAddr =
                      [bits |-> 32, b |-> PrefixEnds(c.octets, c.ones).network]
                /\ util.r.broadcastIPAddr =
                      [bits |-> 32, b |-> PrefixEnds(c.octets, c.ones).broadcast]
                /\ util.r.ipNet.IP = util.r.networkIPAddr.b
                /\ ~Before(util.r.broadcastIPAddr, util.r.networkIPAddr)
        /\ util.cidr \in MalformedCIDRs => ~util.r.ok

\* A CIDR whose address has host bits set gave the network address with
\* the host bits zeroed and the broadcast address with the host bits set.
C15_Witness ==
    /\ util.op = "LoadCIDR"
    /\ util.done
    /\ util.cidr = <<"1", "0", ".", "0", ".", "0", ".", "7", "7", "/", "2", "4">>
    /\ util.r.ok
    /\ util.r.networkIPAddr = [bits |-> 32, b |-> <<10, 0, 0, 0>>]
    /\ util.r.broadcastIPAddr = [bits |-> 32, b |-> <<10, 0, 0, 255>>]

\* C16: IsIPInBetweenOf.  For three texts that denote addresses the result
\* is true exactly when the address is neither before the lower bound nor
\* after the upper bound: true at either bound, false for every address
\* when the lower bound is after the upper one.
C16_InRange ==
    (/\ util.op = "IsIPInBetweenOf"
     /\ util.done
     /\ {util.ip, util.ip1, util.ip2} \subseteq DOMAIN KnownAddrs) =>
        LET a == KnownAddrs[util.ip]
            lo == KnownAddrs[util.ip1]
            hi == KnownAddrs[util.ip2]
        IN /\ util.r <=> (~Before(a, lo) /\ ~Before(hi, a))
           /\ (a = lo /\ ~Before(hi, lo)) => util.r
           /\ (a = hi /\ ~Before(hi, lo)) => util.r
           /\ Before(hi, lo) => ~util.r

\* The address that is the upper bound was found in the range.
C16_Witness ==
    /\ util.op = "IsIPInBetweenOf"
    /\ util.done
    /\ util.ip = <<"1", "0", ".", "0", ".", "0", ".", "1", "0">>
    /\ util.ip1 = <<"1", "0", ".", "0", ".", "0", ".", "1">>
    /\ util.ip2 = <<"1", "0", ".", "0", ".", "0", ".", "1", "0">>
    /\ util.r

\* The fields of the pool configuration of the latest call that hold a
\* text, and those among them that denote no address.
Present == { i \in 1..Len(PoolFields) : util.ipPool[PoolFields[i].from] # <<>> }

Unparsable == { i \in Present : util.ipPool[PoolFields[i].from] \notin DOMAIN KnownAddrs }

\* C17: LoadPool.  The call returns an error exactly when the CIDR is
\* malformed or a field that is present denotes no address; when it
\* returns none, each of start, end, server and router is the address its
\* text denotes when the text is not empty, and is unset when it is.
C17_LoadPool ==
    (util.op = "LoadPool" /\ util.done) =>
        /\ ~util.r.ok <=> (util.ipPool.CIDR \in MalformedCIDRs \/ Unparsable # {})
        /\ util.r.ok =>
              \A i \in 1..Len(PoolFields) :
                 util.r.pi[PoolFields[i].to] =
                    (IF i \in Present
                     THEN KnownAddrs[util.ipPool[PoolFields[i].from]]
                     ELSE ZeroAddr)

\* A pool with a start and a router and neither end nor server was loaded
\* with exactly those two set.
C17_Witness ==
    /\ util.op = "LoadPool"
    /\ util.done
    /\ util.r.ok
    /\ util.ipPool.Start # <<>>
    /\ util.ipPool.End = <<>>
    /\ util.ipPool.ServerIP = <<>>
    /\ util.ipPool.Router # <<>>
    /\ util.r.pi.StartIPAddr = [bits |-> 32, b |-> <<10, 0, 0, 5>>]
    /\ util.r.pi.EndIPAddr = ZeroAddr
    /\ util.r.pi.ServerIPAddr = ZeroAddr
    /\ util.r.pi.RouterIPAddr = [bits |-> 32, b |-> <<10, 0, 0, 5>>]
    /\ util.r.pi.NetworkIPAddr = [bits |-> 32, b |-> <<10, 0, 0, 0>>]

====
